---- MODULE Spec2Model ----
(***************************************************************************)
(* Model of the Tart task driver: the task registry (taskStore), the task  *)
(* handle and its two supervising routines (taskHandle.run, the            *)
(* process-exit watcher, and Driver.handleWait, the poll-driven monitor),  *)
(* and the task-addressed operations of the Driver facade.                 *)
(*                                                                         *)
(* External collaborators are inputs: the launcher process and the         *)
(* executor plugin process are environment processes that may exit at any  *)
(* time, the outcome of every executor / virtualizer call is drawn with \E,*)
(* and a VM status read may report any status or fail.                     *)
(***************************************************************************)
EXTENDS Integers, Sequences, FiniteSets, TLC

\* ---------------------------------------------------------------- bounds
\* number of task handles ever created by StartTask
MaxHandles == 1
\* number of poll monitors ever spawned by WaitTask
MaxWaiters == 1
\* number of StopTask / DestroyTask calls in flight at the same time
MaxCallers == 1
\* length of the Set/Get/Delete history in the registry-only specification
MaxHist == 3

\* number of goroutines that call the registry concurrently
MaxStoreCallers == 2

\* number of VMs `tart list` reports at most
MaxVMs == 3

\* number of Exec attempts of the log-stream supervisor that are followed
MaxAttempts == 6
MaxExecCalls == 2
MaxMounts == 2
MaxProcs == 2
\* number of StartTask calls in flight at the same time
MaxStarters == 2

TaskIds == {"t1", "t2"}
Handles == 1 .. MaxHandles
Waiters == 1 .. MaxWaiters
Callers == 1 .. MaxCallers
StoreCallers == 1 .. MaxStoreCallers
Starters == 1 .. MaxStarters

\* ------------------------------------------------------------ Go values
\* a nil *taskHandle
NilHandle == 0
\* a nil *drivers.ExitResult
NilResult == 0
\* the zero time.Time
ZeroTime == 0

TaskStateRunning == "running"
TaskStateExited == "exited"
TaskStateUnknown == "unknown"
\* a handle slot StartTask has not allocated yet
NoState == "unallocated"

VMStateStopped == "stopped"
VMStateRunning == "running"
VMStatePaused == "paused"

ErrNil == "nil"
ErrTaskNotFound == "task not found"
ErrCannotDestroy == "cannot destroy running task"
ErrShutdownFailed == "executor Shutdown failed"
ErrAlreadyStarted == "task already started"
ErrStartFailed == "start failed"
ErrExecUnsupported == "exec is not supported by the tart driver"
ErrStatus == "failed to get VM status"
ErrWait == "executor wait failed"
\* results the driver passes on from a collaborator without looking at them
ResultOfExecutor == "result of exec.Stats"
ResultOfGuest == "result of client.Exec"
NoErr == "no error"

\* the exit status of a launcher that ends by itself (ExitCode, Signal); one
\* killed by exec.Shutdown ends with KilledPs
ProcExits == { [ExitCode |-> 0, Signal |-> 0] }

\* ExitResult objects live on a heap: the handle holds a pointer, and the
\* same object can be reachable from the handle, a snapshot and a wait channel.
RunObj(h) == h
MonObj(w) == MaxHandles + w
Objs == 1 .. (MaxHandles + MaxWaiters)
ZeroResult == [ExitCode |-> 0, Signal |-> 0, Err |-> NoErr]

\* time stamps, by origin: ps.Time of the executor, time.Now() in run and
\* time.Now() in the poll monitor w
PsTime == 1
NowRun == 2
NowMon(w) == 2 + w

\* stateLock holders
LockFree == 0
LockRun == 1
LockMon(w) == 1 + w

VARIABLES
  store,        \* taskStore.store: task id -> handle (a partial function)
  state,        \* taskHandle.state
  completedAt,  \* taskHandle.completedAt
  exitResult,   \* taskHandle.exitResult (pointer into results)
  results,      \* heap of drivers.ExitResult objects
  stateLock,    \* taskHandle.stateLock: who holds it for writing
  doneCh,       \* taskHandle.doneCh is closed
  hTask,        \* taskHandle.taskConfig.ID
  launcher,     \* the launcher process started by exec.Launch
  pluginExited, \* pluginClient.Exited()
  shutdownCalled, \* exec.Shutdown has been called on the handle's executor and returned
  killCalled,   \* pluginClient.Kill() has been called
  runPc,        \* position of the goroutine h.run()
  wPc,          \* position of the goroutine handleWait of monitor w
  wHandle,      \* the handle monitor w supervises
  wStatus,      \* local variable status of handleWait
  wCause,       \* the branch handleWait took last: rechecked, poll_err or confirmed
  wCtxDone,     \* the call-scoped context of monitor w is cancelled
  wDelivered,   \* the value received from the wait channel of monitor w
  cPc,          \* position of caller c inside StopTask / DestroyTask
  cCall,        \* the call caller c is executing
  last,         \* the call that returned in the step just taken, with its result
  hist,         \* registry-only specifications: the calls applied so far, in the order
                \* they touched the map, with their results
  lockWriter,   \* taskStore.lock: the goroutine that holds it for writing (0: none)
  lockReaders,  \* taskStore.lock: the goroutines that hold it for reading
  sPc,          \* position of registry caller p inside Set / Get / Delete
  sCall,        \* the registry call caller p is executing
  fpPc,         \* position of the goroutine handleFingerprint
  fpCtxDone,    \* the context passed to Fingerprint is cancelled
  fpOut,        \* the fingerprint buildFingerprint returned, not yet received
  fpDelivered,  \* the fingerprint the receiver took last from the channel
  fpCloses,     \* how many times the fingerprint channel was closed
  slPc,         \* position of the goroutine streamSyslogWithRetry
  backoff,      \* local variable backoff of streamSyslogWithRetry, in seconds
  slCtxDone,    \* syslogCtx is cancelled (h.syslogCancel, or the driver context)
  slAttempts,   \* number of d.client.Exec calls streamSyslogWithRetry has made
  slSleeps,     \* the delays streamSyslogWithRetry has slept, in order
  slIp,         \* the address resolution result of the Exec call in progress
  slLast,       \* what the last d.client.Exec call returned
  dCtxDone,     \* d.ctx is cancelled (d.signalShutdown was called)
  wRecvGone,    \* the receiver of monitor w's wait channel has stopped receiving
  fpRecvGone,   \* the receiver of the fingerprint channel has stopped receiving
  suPc,         \* position of a TartClient.Setup call
  suConfig,     \* the VMConfig passed to Setup
  suRan,        \* the tart subprocesses Setup has run, in order, with their outcome
  suRet,        \* what Setup returned
  exLog,       \* the TartClient.Exec calls made so far: arguments, environment, result
  stPc,        \* position of a StartTask call, step by step
  stCfg,       \* the task configuration of that call
  stRan,       \* the subprocesses StartTask itself has started, in order
  stRet,       \* what that StartTask call returned
  bFn,         \* the argument builder or converter called last
  bIn,         \* the value it was called with
  bOut,        \* what it returned
  scPc,        \* position of StartTask call c, when several run at once
  scId,        \* the task id of that call (cfg.ID)
  scPlugin,    \* the executor plugin that call created (pluginClient)
  scPs,        \* the launcher process that call started (execImpl.Launch)
  scRet,       \* what that call returned
  tsPc,        \* position of the goroutine collectStats
  tsCtxDone,   \* the context passed to TaskStats is cancelled
  procCache,   \* collectStats: the PIDs that have a cached process object
  tsPids,      \* the PIDs relatedPIDs returned in the collection just made
  tsSamples,   \* what sampling each of those processes gave in that collection
  tsUsage,     \* the TaskResourceUsage that collection built
  procTrackers, \* vmStatsTracker.procTrackers: the PIDs that have CPU trackers
  trPids,      \* the PIDs virtualizationPIDs returned to the last collect
  tsTartPID    \* h.pid of the handle collectStats was started on

handleVars == <<state, completedAt, exitResult, results, stateLock, doneCh, hTask>>
procVars == <<launcher, pluginExited, shutdownCalled, killCalled>>
waitVars == <<wPc, wHandle, wStatus, wCause, wCtxDone, wDelivered>>
callVars == <<cPc, cCall>>
storeSpecVars == <<hist>>
concVars == <<lockWriter, lockReaders, sPc, sCall>>
fpVars == <<fpPc, fpCtxDone, fpOut, fpDelivered, fpCloses>>
syslogVars == <<slPc, backoff, slCtxDone, slAttempts, slSleeps, slIp, slLast>>
loopVars == <<dCtxDone, wRecvGone, fpRecvGone>>
setupVars == <<suPc, suConfig, suRan, suRet>>
execVars == <<exLog>>
startVars == <<stPc, stCfg, stRan, stRet>>
builderVars == <<bFn, bIn, bOut>>
raceVars == <<scPc, scId, scPlugin, scPs, scRet>>
statsVars == <<tsPc, tsCtxDone, procCache, tsPids, tsSamples, tsUsage, procTrackers, trPids, tsTartPID>>
quietVars == <<storeSpecVars, concVars, syslogVars, setupVars, execVars, startVars, builderVars, raceVars, statsVars>>
sideVars == <<quietVars, fpVars, loopVars>>
vars == <<store, handleVars, procVars, runPc, waitVars, callVars, last, sideVars>>

\* ------------------------------------------------------------- taskStore
\* newTaskStore: an empty map
newTaskStore == [k \in {} |-> NilHandle]

\* taskStore.Set: ts.store[id] = handle
Set(s, id, handle) ==
  [k \in DOMAIN s \cup {id} |-> IF k = id THEN handle ELSE s[k]]

\* a lookup that reports a stored nil handle as absent (ok from handle != nil)
GetNilAbsent(s, id) ==
  IF id \in DOMAIN s /\ s[id] # NilHandle
  THEN [handle |-> s[id], ok |-> TRUE]
  ELSE [handle |-> NilHandle, ok |-> FALSE]

\* taskStore.Get: handle, ok := ts.store[id]
Get(s, id) ==
  IF id \in DOMAIN s THEN [handle |-> s[id], ok |-> TRUE]
                     ELSE [handle |-> NilHandle, ok |-> FALSE]

\* taskStore.Delete: delete(ts.store, id)
Delete(s, id) ==
  [k \in DOMAIN s \ {id} |-> s[k]]

\* ------------------------------------------------------------ taskHandle
\* taskHandle.TaskStatus: a copy of the fields, taken under the read lock
TaskStatus(h) ==
  [State |-> state[h], CompletedAt |-> completedAt[h], ExitResult |-> exitResult[h]]

NoStatus == [State |-> NoState, CompletedAt |-> ZeroTime, ExitResult |-> NilResult]

\* a status read that does not take the read lock
CanRLockUnlocked(h) == TRUE

\* the read lock can be taken: no writer is inside a critical section
CanRLock(h) == stateLock[h] = LockFree

\* the write lock can be taken
CanLock(h) == stateLock[h] = LockFree

\* taskHandle.IsRunning
IsRunning(h) == state[h] = TaskStateRunning

\* the value a call returns to the host
Ret(op, id, force, err, status) ==
  [op |-> op, id |-> id, force |-> force, err |-> err, status |-> status,
   h |-> NilHandle]

\* the same, for a call that got as far as working on handle h
RetOn(h, op, id, force, err) ==
  [op |-> op, id |-> id, force |-> force, err |-> err, status |-> NoStatus, h |-> h]

\* no call returned in the step just taken
NoCall == Ret("none", "t1", FALSE, ErrNil, NoStatus)

NoProc == [st |-> "none", ExitCode |-> 0, Signal |-> 0]
RunningProc == [st |-> "running", ExitCode |-> 0, Signal |-> 0]
ExitedProc(ps) == [st |-> "exited", ExitCode |-> ps.ExitCode, Signal |-> ps.Signal]
\* the exit status of a launcher killed by exec.Shutdown
KilledPs == [ExitCode |-> 137, Signal |-> 9]

\* a caller that is not inside a call
NoCallRec ==
  [op |-> "none", id |-> "t1", h |-> NilHandle, force |-> FALSE, virtErr |-> FALSE]

\* the locals of a StopTask / DestroyTask call that found its handle
CallRec(op, id, force, virtErr) ==
  [op |-> op, id |-> id, h |-> Get(store, id).handle, force |-> force,
   virtErr |-> virtErr]

\* no address resolution result, no Exec result
NoIp == [err |-> FALSE, ip |-> ""]
NoExec == [exitCode |-> 0, err |-> "none", ran |-> << >>]

\* no fingerprint
NoFingerprint ==
  [Health |-> "none", attr |-> "none", counted |-> FALSE, slots |-> 0, vms |-> << >>]

\* no step-by-step StartTask call yet
NoNetwork ==
  [nil |-> TRUE, Mode |-> "", BridgedInterface |-> "", allow |-> << >>, expose |-> << >>]
NoStartCfg == [registered |-> FALSE, decodes |-> TRUE, Network |-> NoNetwork]
NoStartResult == [returned |-> FALSE, err |-> "none"]

\* no Setup call yet
NoVMConfig ==
  [Username |-> "", Password |-> "", URL |-> << >>,
   cpu |-> 1, memoryMB |-> 0, DiskSize |-> 0]
NoSetupResult == [returned |-> FALSE, err |-> "none"]

\* no resource usage built yet
NoUsage ==
  [RSS |-> 0, Swap |-> 0, SystemMode |-> 0, UserMode |-> 0, Percent |-> 0,
   Pids |-> << >>, built |-> FALSE]

\* a registry caller that is not inside a call
NoStoreCall == [op |-> "none", id |-> "t1", handle |-> NilHandle]

Init ==
  /\ store = newTaskStore
  /\ state = [h \in Handles |-> NoState]
  /\ completedAt = [h \in Handles |-> ZeroTime]
  /\ exitResult = [h \in Handles |-> NilResult]
  /\ results = [o \in Objs |-> ZeroResult]
  /\ stateLock = [h \in Handles |-> LockFree]
  /\ doneCh = [h \in Handles |-> FALSE]
  /\ hTask = [h \in Handles |-> "t1"]
  /\ launcher = [h \in Handles |-> NoProc]
  /\ pluginExited = [h \in Handles |-> FALSE]
  /\ shutdownCalled = [h \in Handles |-> FALSE]
  /\ killCalled = [h \in Handles |-> FALSE]
  /\ runPc = [h \in Handles |-> "none"]
  /\ wPc = [w \in Waiters |-> "idle"]
  /\ wHandle = [w \in Waiters |-> NilHandle]
  /\ wStatus = [w \in Waiters |-> ""]
  /\ wCause = [w \in Waiters |-> "none"]
  /\ wCtxDone = [w \in Waiters |-> FALSE]
  /\ wDelivered = [w \in Waiters |-> NilResult]
  /\ cPc = [c \in Callers |-> "idle"]
  /\ cCall = [c \in Callers |-> NoCallRec]
  /\ last = NoCall
  /\ hist = << >>
  /\ lockWriter = 0
  /\ lockReaders = {}
  /\ sPc = [p \in StoreCallers |-> "idle"]
  /\ sCall = [p \in StoreCallers |-> NoStoreCall]
  /\ fpPc = "idle"
  /\ fpCtxDone = FALSE
  /\ fpOut = NoFingerprint
  /\ fpDelivered = NoFingerprint
  /\ fpCloses = 0
  /\ slPc = "idle"
  /\ backoff = 0
  /\ slCtxDone = FALSE
  /\ slAttempts = 0
  /\ slSleeps = << >>
  /\ slIp = NoIp
  /\ slLast = NoExec
  /\ dCtxDone = FALSE
  /\ wRecvGone = [w \in Waiters |-> FALSE]
  /\ fpRecvGone = FALSE
  /\ suPc = "idle"
  /\ suConfig = NoVMConfig
  /\ suRan = << >>
  /\ suRet = NoSetupResult
  /\ tsPc = "idle"
  /\ tsCtxDone = FALSE
  /\ procCache = {}
  /\ tsPids = << >>
  /\ tsSamples = << >>
  /\ tsUsage = NoUsage
  /\ procTrackers = {}
  /\ trPids = << >>
  /\ tsTartPID = 0
  /\ scPc = [c \in Starters |-> "idle"]
  /\ scId = [c \in Starters |-> "t1"]
  /\ scPlugin = [c \in Starters |-> "none"]
  /\ scPs = [c \in Starters |-> "none"]
  /\ scRet = [c \in Starters |-> NoStartResult]
  /\ bFn = "none"
  /\ bIn = << >>
  /\ bOut = << >>
  /\ stPc = "idle"
  /\ stCfg = NoStartCfg
  /\ stRan = << >>
  /\ stRet = NoStartResult
  /\ exLog = << >>

\* --------------------------------------------------------------- StartTask
\* Driver.StartTask: rejects an id that is already registered; otherwise sets
\* up the VM, launches `tart run` under a fresh executor, registers the
\* handle in state Running and starts h.run().  Every failure before the
\* handle is built returns an error and registers nothing.
StartTask(id) ==
  /\ UNCHANGED <<waitVars, callVars, sideVars>>
  /\ IF Get(store, id).ok
     THEN /\ last' = Ret("StartTask", id, FALSE, ErrAlreadyStarted, NoStatus)
          /\ UNCHANGED <<store, handleVars, procVars, runPc>>
     ELSE \/ /\ last' = Ret("StartTask", id, FALSE, ErrStartFailed, NoStatus)
             /\ UNCHANGED <<store, handleVars, procVars, runPc>>
          \/ \E h \in Handles :
             /\ state[h] = NoState
             /\ \A g \in Handles : g < h => state[g] # NoState
             /\ state' = [state EXCEPT ![h] = TaskStateRunning]
             /\ hTask' = [hTask EXCEPT ![h] = id]
             /\ launcher' = [launcher EXCEPT ![h] = RunningProc]
             /\ runPc' = [runPc EXCEPT ![h] = "start"]
             /\ store' = Set(store, id, h)
             /\ last' = Ret("StartTask", id, FALSE, ErrNil, NoStatus)
             /\ UNCHANGED <<completedAt, exitResult, results, stateLock, doneCh,
                            pluginExited, shutdownCalled, killCalled>>

\* ------------------------------------------------------------ environment
\* the launcher process (tart run) ends by itself
LauncherExit(h) ==
  /\ launcher[h].st = "running"
  /\ \E ps \in ProcExits : launcher' = [launcher EXCEPT ![h] = ExitedProc(ps)]
  /\ UNCHANGED <<store, handleVars, pluginExited, shutdownCalled, killCalled,
                 runPc, waitVars, callVars, sideVars>>
  /\ last' = NoCall

\* the executor plugin process dies without the driver having killed it
PluginCrash(h) ==
  /\ state[h] # NoState
  /\ ~pluginExited[h]
  /\ pluginExited' = [pluginExited EXCEPT ![h] = TRUE]
  /\ UNCHANGED <<store, handleVars, launcher, shutdownCalled, killCalled,
                 runPc, waitVars, callVars, sideVars>>
  /\ last' = NoCall

\* ---------------------------------------------------------- taskHandle.run
\* run, lines 89-93: allocate the exit result if there is none yet
RunStart(h) ==
  /\ runPc[h] = "start"
  /\ CanLock(h)
  /\ IF exitResult[h] = NilResult
     THEN /\ exitResult' = [exitResult EXCEPT ![h] = RunObj(h)]
          /\ results' = [results EXCEPT ![RunObj(h)] = ZeroResult]
     ELSE UNCHANGED <<exitResult, results>>
  /\ runPc' = [runPc EXCEPT ![h] = "wait"]
  /\ UNCHANGED <<store, state, completedAt, stateLock, doneCh, hTask, procVars,
                 waitVars, callVars, sideVars>>
  /\ last' = NoCall

\* the state run publishes when exec.Wait returned an error
RunErrState == TaskStateUnknown

\* run, lines 95-107: exec.Wait returns the exit status of the launcher, or an
\* error when the executor plugin is gone; run takes the lock and writes the
\* first fields
RunWait(h) ==
  /\ runPc[h] = "wait"
  /\ CanLock(h)
  /\ \/ /\ pluginExited[h]
        /\ results' = [results EXCEPT ![exitResult[h]].Err = ErrWait]
        /\ state' = [state EXCEPT ![h] = RunErrState]
        /\ runPc' = [runPc EXCEPT ![h] = "publish_err"]
     \/ /\ launcher[h].st = "exited"
        /\ state' = [state EXCEPT ![h] = TaskStateExited]
        /\ runPc' = [runPc EXCEPT ![h] = "publish_ok"]
        /\ UNCHANGED results
  /\ stateLock' = [stateLock EXCEPT ![h] = LockRun]
  /\ UNCHANGED <<store, completedAt, exitResult, doneCh, hTask, procVars,
                 waitVars, callVars, sideVars>>
  /\ last' = NoCall

\* run, lines 103-111 and the deferred calls: the remaining fields, the
\* unlock, and close(doneCh)
RunPublish(h) ==
  /\ runPc[h] \in {"publish_err", "publish_ok"}
  /\ IF runPc[h] = "publish_err"
     THEN /\ completedAt' = [completedAt EXCEPT ![h] = NowRun]
          /\ UNCHANGED results
     ELSE /\ results' = [results EXCEPT ![exitResult[h]].ExitCode = launcher[h].ExitCode,
                                        ![exitResult[h]].Signal = launcher[h].Signal]
          /\ completedAt' = [completedAt EXCEPT ![h] = PsTime]
  /\ stateLock' = [stateLock EXCEPT ![h] = LockFree]
  /\ doneCh' = [doneCh EXCEPT ![h] = TRUE]
  /\ runPc' = [runPc EXCEPT ![h] = "done"]
  /\ UNCHANGED <<store, state, exitResult, hTask, procVars,
                 waitVars, callVars, sideVars>>
  /\ last' = NoCall

\* ---------------------------------------------------------------- WaitTask
\* Driver.WaitTask: looks the handle up and starts handleWait on it
WaitTask(id) ==
  /\ UNCHANGED <<store, handleVars, procVars, runPc, callVars, sideVars>>
  /\ IF ~Get(store, id).ok
     THEN /\ last' = Ret("WaitTask", id, FALSE, ErrTaskNotFound, NoStatus)
          /\ UNCHANGED waitVars
     ELSE \E w \in Waiters :
          /\ wPc[w] = "idle"
          /\ \A v \in Waiters : v < w => wPc[v] # "idle"
          /\ wPc' = [wPc EXCEPT ![w] = "select"]
          /\ wHandle' = [wHandle EXCEPT ![w] = Get(store, id).handle]
          /\ last' = Ret("WaitTask", id, FALSE, ErrNil, NoStatus)
          /\ UNCHANGED <<wStatus, wCause, wCtxDone, wDelivered>>

\* the host cancels the context it passed to WaitTask
CancelWait(w) ==
  /\ wPc[w] \notin {"idle", "done"}
  /\ ~wCtxDone[w]
  /\ wCtxDone' = [wCtxDone EXCEPT ![w] = TRUE]
  /\ UNCHANGED <<store, handleVars, procVars, runPc, wPc, wHandle, wStatus, wCause,
                 wDelivered, callVars, sideVars>>
  /\ last' = NoCall

\* --------------------------------------------------------------- handleWait
\* what one GetVMStatus call can return: a status, or "" with an error.  The
\* command runs under the call's context, so it fails once that is cancelled.
StatusReads(w) ==
  IF wCtxDone[w]
  THEN { [status |-> "", err |-> TRUE] }
  ELSE { [status |-> st, err |-> FALSE] : st \in {VMStateRunning, VMStateStopped, VMStatePaused} }
       \cup { [status |-> "", err |-> TRUE] }

\* handleWait, case <-ctx.Done(): return, the deferred close(ch) runs.
\* (The case <-d.ctx.Done() never fires: nothing calls signalShutdown.)
WaitCtxDone(w) ==
  /\ wPc[w] = "select"
  /\ wCtxDone[w]
  /\ wPc' = [wPc EXCEPT ![w] = "done"]
  /\ UNCHANGED <<store, handleVars, procVars, runPc, wHandle, wStatus, wCause,
                 wCtxDone, wDelivered, callVars, sideVars>>
  /\ last' = NoCall

\* the monitor takes the lock and writes handle.state (lines 49-50, 81-82)
WaitLockAndMark(w, pc, status, cause) ==
  /\ CanLock(wHandle[w])
  /\ stateLock' = [stateLock EXCEPT ![wHandle[w]] = LockMon(w)]
  /\ state' = [state EXCEPT ![wHandle[w]] = TaskStateExited]
  /\ wPc' = [wPc EXCEPT ![w] = pc]
  /\ wStatus' = [wStatus EXCEPT ![w] = status]
  /\ wCause' = [wCause EXCEPT ![w] = cause]

\* a confirmation read with the comparison inverted
ConfirmedRunningInverted(r) == ~r.err /\ r.status # VMStateRunning

\* what handleWait does with the confirmation read (line 70): TRUE when the
\* monitor goes back to polling
ConfirmedRunning(r) == ~r.err /\ r.status = VMStateRunning

\* handleWait, case <-ticker.C, lines 45-65: the status read of a tick
WaitPoll(w) ==
  /\ wPc[w] = "select"
  /\ \E r \in StatusReads(w) :
       IF r.err
       THEN /\ WaitLockAndMark(w, "mark", r.status, "poll_err")
            /\ UNCHANGED <<completedAt, exitResult, results, doneCh, hTask>>
       ELSE IF r.status # VMStateRunning
       THEN /\ wPc' = [wPc EXCEPT ![w] = "confirm"]
            /\ UNCHANGED <<handleVars, wStatus, wCause>>
       ELSE UNCHANGED <<handleVars, wPc, wStatus, wCause>>
  /\ UNCHANGED <<store, procVars, runPc, wHandle, wCtxDone, wDelivered,
                 callVars, sideVars>>
  /\ last' = NoCall

\* handleWait, lines 68-82: the confirmation read one second later
WaitConfirm(w) ==
  /\ wPc[w] = "confirm"
  /\ \E r \in StatusReads(w) :
       IF ConfirmedRunning(r)
       THEN /\ wPc' = [wPc EXCEPT ![w] = "select"]
            /\ wCause' = [wCause EXCEPT ![w] = "rechecked"]
            /\ UNCHANGED <<handleVars, wStatus>>
       ELSE /\ WaitLockAndMark(w, "mark", r.status, "confirmed")
            /\ UNCHANGED <<completedAt, exitResult, results, doneCh, hTask>>
  /\ UNCHANGED <<store, procVars, runPc, wHandle, wCtxDone, wDelivered,
                 callVars, sideVars>>
  /\ last' = NoCall

\* an exit result that drops the status-read failure
WaitExitResultNoErr(cause, status) ==
  [ExitCode |-> IF status # VMStateStopped THEN 1 ELSE 0, Signal |-> 0, Err |-> NoErr]

\* an exit result whose code is 1 only for a VM read as paused
WaitExitResultPausedOnly(cause, status) ==
  IF cause = "poll_err"
  THEN [ExitCode |-> 1, Signal |-> 0, Err |-> ErrStatus]
  ELSE [ExitCode |-> IF status = VMStatePaused THEN 1 ELSE 0, Signal |-> 0, Err |-> NoErr]

\* the exit result handleWait builds (lines 52-56 and 86-95)
WaitExitResult(cause, status) ==
  IF cause = "poll_err"
  THEN [ExitCode |-> 1, Signal |-> 0, Err |-> ErrStatus]
  ELSE [ExitCode |-> IF status # VMStateStopped THEN 1 ELSE 0, Signal |-> 0, Err |-> NoErr]

\* handleWait, lines 51-58 and 83-97: the remaining fields and the unlock
WaitPublish(w) ==
  /\ wPc[w] = "mark"
  /\ completedAt' = [completedAt EXCEPT ![wHandle[w]] = NowMon(w)]
  /\ exitResult' = [exitResult EXCEPT ![wHandle[w]] = MonObj(w)]
  /\ results' = [results EXCEPT ![MonObj(w)] = WaitExitResult(wCause[w], wStatus[w])]
  /\ stateLock' = [stateLock EXCEPT ![wHandle[w]] = LockFree]
  /\ wPc' = [wPc EXCEPT ![w] = "send"]
  /\ wStatus' = [wStatus EXCEPT ![w] = ""]
  /\ UNCHANGED <<store, state, doneCh, hTask, procVars, runPc, wHandle,
                 wCause, wCtxDone, wDelivered, callVars, sideVars>>
  /\ last' = NoCall

\* handleWait, lines 60-61 and 99-100: the receiver takes the result from
\* the unbuffered channel, the monitor returns and close(ch) runs
WaitSend(w) ==
  /\ wPc[w] = "send"
  /\ ~wRecvGone[w]
  /\ wDelivered' = [wDelivered EXCEPT ![w] = MonObj(w)]
  /\ wPc' = [wPc EXCEPT ![w] = "done"]
  /\ UNCHANGED <<store, handleVars, procVars, runPc, wHandle, wStatus, wCause,
                 wCtxDone, callVars, sideVars>>
  /\ last' = NoCall

\* ---------------------------------------------------------------- StopTask
\* exec.Shutdown can succeed only while the executor plugin is alive; a
\* successful Shutdown has ended the launcher process
ShutdownOutcomes(h) == IF pluginExited[h] THEN {FALSE} ELSE {TRUE, FALSE}

LauncherAfterShutdown(h, ok) ==
  IF ok /\ launcher[h].st = "running" THEN ExitedProc(KilledPs) ELSE launcher[h]

\* StopTask, lines 361-378: the lookup, then the virtualizer's stop and
\* delete, whose errors are only logged
StopTaskCall(c, id) ==
  /\ cPc[c] = "idle"
  /\ UNCHANGED <<store, handleVars, procVars, runPc, waitVars, sideVars>>
  /\ IF ~Get(store, id).ok
     THEN /\ last' = Ret("StopTask", id, FALSE, ErrTaskNotFound, NoStatus)
          /\ UNCHANGED callVars
     ELSE \E stopErr \in BOOLEAN, deleteErr \in BOOLEAN :
          /\ cPc' = [cPc EXCEPT ![c] = "stop_shutdown"]
          /\ cCall' = [cCall EXCEPT ![c] =
                         CallRec("StopTask", id, FALSE, stopErr \/ deleteErr)]
          /\ last' = NoCall

\* what StopTask returns when exec.Shutdown failed (lines 381-384)
StopShutdownFailedErr(h) ==
  IF pluginExited[h] THEN ErrNil ELSE ErrShutdownFailed

\* StopTask, lines 380-385: exec.Shutdown(signal, timeout) returns
StopTaskShutdown(c) ==
  /\ cPc[c] = "stop_shutdown"
  /\ LET h == cCall[c].h IN
     \E ok \in ShutdownOutcomes(h) :
       /\ launcher' = [launcher EXCEPT ![h] = LauncherAfterShutdown(h, ok)]
       /\ shutdownCalled' = [shutdownCalled EXCEPT ![h] = TRUE]
       /\ IF ok
          THEN /\ cPc' = [cPc EXCEPT ![c] = "stop_wait"]
               /\ last' = NoCall
               /\ UNCHANGED cCall
          ELSE /\ cPc' = [cPc EXCEPT ![c] = "idle"]
               /\ cCall' = [cCall EXCEPT ![c] = NoCallRec]
               /\ last' = RetOn(h, "StopTask", cCall[c].id, FALSE,
                                StopShutdownFailedErr(h))
  /\ UNCHANGED <<store, handleVars, pluginExited, killCalled, runPc, waitVars,
                 sideVars>>

\* StopTask, lines 387-391: <-handle.doneCh, pluginClient.Kill(), return nil
StopTaskDone(c) ==
  /\ cPc[c] = "stop_wait"
  /\ doneCh[cCall[c].h]
  /\ pluginExited' = [pluginExited EXCEPT ![cCall[c].h] = TRUE]
  /\ killCalled' = [killCalled EXCEPT ![cCall[c].h] = TRUE]
  /\ cPc' = [cPc EXCEPT ![c] = "idle"]
  /\ cCall' = [cCall EXCEPT ![c] = NoCallRec]
  /\ last' = RetOn(cCall[c].h, "StopTask", cCall[c].id, FALSE, ErrNil)
  /\ UNCHANGED <<store, handleVars, launcher, shutdownCalled, runPc, waitVars,
                 sideVars>>

\* ------------------------------------------------------------- DestroyTask
\* DestroyTask, lines 396-399: the lookup
DestroyTaskCall(c, id, force) ==
  /\ cPc[c] = "idle"
  /\ UNCHANGED <<store, handleVars, procVars, runPc, waitVars, sideVars>>
  /\ IF ~Get(store, id).ok
     THEN /\ last' = Ret("DestroyTask", id, force, ErrTaskNotFound, NoStatus)
          /\ UNCHANGED callVars
     ELSE /\ cPc' = [cPc EXCEPT ![c] = "destroy_check"]
          /\ cCall' = [cCall EXCEPT ![c] = CallRec("DestroyTask", id, force, FALSE)]
          /\ last' = NoCall

\* a rejection with the force flag inverted
DestroyRejectedIfForced(h, force) == IsRunning(h) /\ force

\* DestroyTask, line 401: the call is rejected
DestroyRejected(h, force) == IsRunning(h) /\ ~force

\* DestroyTask, line 405: the executor is shut down before the entry goes
DestroyNeedsShutdown(h) == ~pluginExited[h]

\* DestroyTask, lines 401-405: IsRunning under the read lock, then
\* pluginClient.Exited()
DestroyTaskCheck(c) ==
  /\ cPc[c] = "destroy_check"
  /\ CanRLock(cCall[c].h)
  /\ UNCHANGED <<store, handleVars, procVars, runPc, waitVars, sideVars>>
  /\ IF DestroyRejected(cCall[c].h, cCall[c].force)
     THEN /\ cPc' = [cPc EXCEPT ![c] = "idle"]
          /\ cCall' = [cCall EXCEPT ![c] = NoCallRec]
          /\ last' = RetOn(cCall[c].h, "DestroyTask", cCall[c].id, cCall[c].force,
                           ErrCannotDestroy)
     ELSE /\ cPc' = [cPc EXCEPT ![c] =
                       IF DestroyNeedsShutdown(cCall[c].h) THEN "destroy_shutdown"
                                                           ELSE "destroy_delete"]
          /\ last' = NoCall
          /\ UNCHANGED cCall

\* DestroyTask, lines 406-409: exec.Shutdown("", 0) returns (an error is
\* only logged), then pluginClient.Kill()
DestroyTaskShutdown(c) ==
  /\ cPc[c] = "destroy_shutdown"
  /\ LET h == cCall[c].h IN
     \E ok \in ShutdownOutcomes(h) :
       /\ launcher' = [launcher EXCEPT ![h] = LauncherAfterShutdown(h, ok)]
       /\ shutdownCalled' = [shutdownCalled EXCEPT ![h] = TRUE]
       /\ killCalled' = [killCalled EXCEPT ![h] = TRUE]
       /\ pluginExited' = [pluginExited EXCEPT ![h] = TRUE]
  /\ cPc' = [cPc EXCEPT ![c] = "destroy_delete"]
  /\ UNCHANGED <<store, handleVars, runPc, waitVars, cCall, sideVars>>
  /\ last' = NoCall

\* DestroyTask, lines 412-414: d.tasks.Delete(taskID), return nil
DestroyTaskDelete(c) ==
  /\ cPc[c] = "destroy_delete"
  /\ store' = Delete(store, cCall[c].id)
  /\ cPc' = [cPc EXCEPT ![c] = "idle"]
  /\ cCall' = [cCall EXCEPT ![c] = NoCallRec]
  /\ last' = RetOn(cCall[c].h, "DestroyTask", cCall[c].id, cCall[c].force, ErrNil)
  /\ UNCHANGED <<handleVars, procVars, runPc, waitVars, sideVars>>

\* ------------------------------------------------ the single-step operations
\* a lookup whose ok result is ignored
LookupErrIgnored(id, found) == found

\* what a lookup-only operation returns: the sentinel for an unknown id,
\* otherwise the operation's own result
LookupErr(id, found) == IF Get(store, id).ok THEN found ELSE ErrTaskNotFound

\* a call that reads the registry and writes nothing
ReadOnlyCall(op, id, err, status) ==
  /\ last' = Ret(op, id, FALSE, err, status)
  /\ UNCHANGED <<store, handleVars, procVars, runPc, waitVars, callVars, sideVars>>

\* Driver.InspectTask
InspectTask(id) ==
  /\ Get(store, id).ok => CanRLock(Get(store, id).handle)
  /\ ReadOnlyCall("InspectTask", id, LookupErr(id, ErrNil),
                  IF Get(store, id).ok THEN TaskStatus(Get(store, id).handle)
                                       ELSE NoStatus)

\* Driver.TaskStats: the result of h.exec.Stats is the executor's
TaskStats(id) ==
  ReadOnlyCall("TaskStats", id, LookupErr(id, ResultOfExecutor), NoStatus)

\* Driver.SignalTask
SignalTask(id) ==
  ReadOnlyCall("SignalTask", id, LookupErr(id, ErrNil), NoStatus)

\* Driver.ExecTask
ExecTask(id) ==
  ReadOnlyCall("ExecTask", id, LookupErr(id, ErrExecUnsupported), NoStatus)

\* Driver.ExecTaskStreaming: the result of d.client.Exec is the guest's
ExecTaskStreaming(id) ==
  ReadOnlyCall("ExecTaskStreaming", id, LookupErr(id, ResultOfGuest), NoStatus)

\* ------------------------------------------- the registry on its own
\* the handles a caller of the registry can pass, nil included
StoreHandles == {NilHandle} \cup (1 .. 2)

driverVars == <<handleVars, procVars, runPc, waitVars, callVars, last>>

\* everything the registry-only specification leaves alone
storeRest == <<driverVars, concVars, fpVars, syslogVars, loopVars, setupVars, execVars, startVars, builderVars, raceVars, statsVars>>

\* a caller runs ts.Set(id, handle)
StoreSet(id, handle) ==
  /\ Len(hist) < MaxHist
  /\ store' = Set(store, id, handle)
  /\ hist' = Append(hist, [op |-> "Set", id |-> id, handle |-> handle, ok |-> TRUE])
  /\ UNCHANGED storeRest

\* a caller runs ts.Get(id) and keeps what it returned
StoreGet(id) ==
  /\ Len(hist) < MaxHist
  /\ hist' = Append(hist, [op |-> "Get", id |-> id,
                           handle |-> Get(store, id).handle, ok |-> Get(store, id).ok])
  /\ UNCHANGED <<store, storeRest>>

\* a caller runs ts.Delete(id)
StoreDelete(id) ==
  /\ Len(hist) < MaxHist
  /\ store' = Delete(store, id)
  /\ hist' = Append(hist, [op |-> "Delete", id |-> id, handle |-> NilHandle, ok |-> TRUE])
  /\ UNCHANGED storeRest

NextStore ==
  \/ \E id \in TaskIds, handle \in StoreHandles : StoreSet(id, handle)
  \/ \E id \in TaskIds : StoreGet(id)
  \/ \E id \in TaskIds : StoreDelete(id)

SpecStore == Init /\ [][NextStore]_vars

\* ------------------------------------------- the registry under concurrency
\* Set and Delete write the map, Get reads it
WritesMap(op) == op \in {"Set", "Delete"}

\* a registry that takes only the read lock in Set
TakesWriteLockDeleteOnly(op) == op = "Delete"

\* the lock an operation takes: ts.lock.Lock() in Set and Delete,
\* ts.lock.RLock() in Get
TakesWriteLock(op) == op # "Get"

\* sync.RWMutex: Lock waits until nobody holds the lock, RLock until no writer does
CanLockStore(write) ==
  IF write THEN lockWriter = 0 /\ lockReaders = {} ELSE lockWriter = 0

\* caller p touches the map while another goroutine is inside a critical
\* section and one of the two writes: a data race on a Go map
Racing(p) ==
  \E q \in StoreCallers \ {p} :
    sPc[q] = "inside" /\ (WritesMap(sCall[p].op) \/ WritesMap(sCall[q].op))

\* what a racing access can leave in the map, and what a racing read can return
RaceOutcomes == UNION { [D -> StoreHandles] : D \in SUBSET TaskIds }
RaceReads == { [handle |-> h, ok |-> b] : h \in StoreHandles, b \in BOOLEAN }

\* everything the concurrent registry callers leave alone
concRest == <<driverVars, fpVars, syslogVars, loopVars, setupVars, execVars, startVars, builderVars, raceVars, statsVars>>

\* a goroutine calls ts.Set, ts.Get or ts.Delete
ConcCall(p, op, id, handle) ==
  /\ sPc[p] = "idle"
  /\ Len(hist) + Cardinality({q \in StoreCallers : sPc[q] # "idle"}) < MaxHist
  /\ sPc' = [sPc EXCEPT ![p] = "lock"]
  /\ sCall' = [sCall EXCEPT ![p] = [op |-> op, id |-> id, handle |-> handle]]
  /\ UNCHANGED <<store, storeSpecVars, concRest, lockWriter, lockReaders>>

\* ts.lock.Lock() / ts.lock.RLock() returns
ConcLock(p) ==
  /\ sPc[p] = "lock"
  /\ CanLockStore(TakesWriteLock(sCall[p].op))
  /\ IF TakesWriteLock(sCall[p].op)
     THEN lockWriter' = p /\ UNCHANGED lockReaders
     ELSE lockReaders' = lockReaders \cup {p} /\ UNCHANGED lockWriter
  /\ sPc' = [sPc EXCEPT ![p] = "inside"]
  /\ UNCHANGED <<store, storeSpecVars, concRest, sCall>>

\* the map access of the call and its result
ConcAccess(p, s) ==
  LET c == sCall[p]
  IN IF c.op = "Set" THEN [store |-> Set(s, c.id, c.handle), handle |-> c.handle, ok |-> TRUE]
     ELSE IF c.op = "Delete" THEN [store |-> Delete(s, c.id), handle |-> NilHandle, ok |-> TRUE]
     ELSE [store |-> s, handle |-> Get(s, c.id).handle, ok |-> Get(s, c.id).ok]

\* the body of Set / Get / Delete and the deferred unlock
ConcApply(p) ==
  /\ sPc[p] = "inside"
  /\ IF Racing(p)
     THEN \E m \in RaceOutcomes, r \in RaceReads :
            /\ store' = m
            /\ hist' = Append(hist, [op |-> sCall[p].op, id |-> sCall[p].id,
                                     handle |-> r.handle, ok |-> r.ok])
     ELSE LET a == ConcAccess(p, store)
          IN /\ store' = a.store
             /\ hist' = Append(hist, [op |-> sCall[p].op, id |-> sCall[p].id,
                                      handle |-> a.handle, ok |-> a.ok])
  /\ IF TakesWriteLock(sCall[p].op)
     THEN lockWriter' = 0 /\ UNCHANGED lockReaders
     ELSE lockReaders' = lockReaders \ {p} /\ UNCHANGED lockWriter
  /\ sPc' = [sPc EXCEPT ![p] = "idle"]
  /\ sCall' = [sCall EXCEPT ![p] = NoStoreCall]
  /\ UNCHANGED concRest

NextConc ==
  \/ \E p \in StoreCallers, id \in TaskIds, handle \in StoreHandles :
       ConcCall(p, "Set", id, handle)
  \/ \E p \in StoreCallers, id \in TaskIds : ConcCall(p, "Get", id, NilHandle)
  \/ \E p \in StoreCallers, id \in TaskIds : ConcCall(p, "Delete", id, NilHandle)
  \/ \E p \in StoreCallers : ConcLock(p)
  \/ \E p \in StoreCallers : ConcApply(p)

SpecConc == Init /\ [][NextConc]_vars

\* ------------------------------------------------------------ fingerprint
\* maxVMSlots
maxVMSlots == 2

\* the state strings `tart list` prints
RawStatuses == {"running", "Running", "paused", "stopped", "suspended"}

\* what one `tart list` can report: the states of up to MaxVMs VMs
VMLists == UNION { [1 .. n -> RawStatuses] : n \in 0 .. MaxVMs }

\* a lower-casing that changes nothing
ToLowerAsWritten(str) == str

\* strings.ToLower on the state strings
ToLower(str) ==
  IF str \in {"Running", "RUNNING"} THEN "running"
  ELSE IF str \in {"Paused", "PAUSED"} THEN "paused"
  ELSE str

\* convertTartStatus
convertTartStatus(tartStatus) ==
  IF ToLower(tartStatus) = "running" THEN VMStateRunning
  ELSE IF ToLower(tartStatus) = "paused" THEN VMStatePaused
  ELSE VMStateStopped

\* ListVMs: the VMInfo list, each Status converted
ListVMs(raw) == [i \in DOMAIN raw |-> convertTartStatus(raw[i])]

\* buildFingerprint, lines 94-99: the loop that counts the running VMs
RECURSIVE runningVMsCount(_)
runningVMsCount(vms) ==
  IF vms = << >> THEN 0
  ELSE runningVMsCount(Tail(vms)) + (IF Head(vms) = VMStateRunning THEN 1 ELSE 0)

\* a slot count that is not clamped
availableSlotsUnclamped(vms) == maxVMSlots - runningVMsCount(vms)

\* buildFingerprint, lines 100-107: availableSlots
availableSlots(vms) ==
  IF maxVMSlots - runningVMsCount(vms) < 0 THEN 0
  ELSE maxVMSlots - runningVMsCount(vms)

\* buildFingerprint: enabled is d.config.Enabled, installed and listed say
\* that IsInstalled and ListVMs returned no error, raw is what tart listed
buildFingerprint(enabled, installed, listed, raw) ==
  IF ~enabled
  THEN [Health |-> "undetected", attr |-> "false", counted |-> FALSE, slots |-> 0,
        vms |-> << >>]
  ELSE IF ~installed
  THEN [Health |-> "undetected", attr |-> "0", counted |-> FALSE, slots |-> 0,
        vms |-> << >>]
  ELSE IF ~listed
  THEN [Health |-> "unhealthy", attr |-> "false", counted |-> FALSE, slots |-> 0,
        vms |-> << >>]
  ELSE [Health |-> "healthy",
        attr |-> IF availableSlots(ListVMs(raw)) > 0 THEN "true" ELSE "false",
        counted |-> TRUE, slots |-> availableSlots(ListVMs(raw)),
        vms |-> ListVMs(raw)]

\* everything the fingerprint emitter leaves alone
fpRest == <<store, driverVars, storeSpecVars, concVars, syslogVars, loopVars, setupVars, execVars, startVars, builderVars, raceVars, statsVars>>

\* Driver.Fingerprint: makes the channel and starts handleFingerprint
Fingerprint ==
  /\ fpPc = "idle"
  /\ fpPc' = "select"
  /\ UNCHANGED <<fpCtxDone, fpOut, fpDelivered, fpCloses, fpRest>>

\* the host cancels the context it passed to Fingerprint
CancelFingerprint ==
  /\ fpPc # "idle"
  /\ ~fpCtxDone
  /\ fpCtxDone' = TRUE
  /\ UNCHANGED <<fpPc, fpOut, fpDelivered, fpCloses, fpRest>>

\* handleFingerprint, case <-ctx.Done(): return
FingerprintCtxDone ==
  /\ fpPc = "select"
  /\ fpCtxDone
  /\ fpPc' = "return"
  /\ UNCHANGED <<fpCtxDone, fpOut, fpDelivered, fpCloses, fpRest>>

\* handleFingerprint, case <-d.ctx.Done(): return
FingerprintDriverDone ==
  /\ fpPc = "select"
  /\ dCtxDone
  /\ fpPc' = "return"
  /\ UNCHANGED <<fpCtxDone, fpOut, fpDelivered, fpCloses, fpRest>>

\* the host stops receiving from the fingerprint channel once it has
\* cancelled the context
FingerprintReceiverLeaves ==
  /\ fpCtxDone
  /\ ~fpRecvGone
  /\ fpRecvGone' = TRUE
  /\ UNCHANGED <<fpVars, dCtxDone, wRecvGone, store, driverVars, quietVars>>

\* a return that leaves the channel open
FingerprintCloseSkipped ==
  /\ fpPc = "return"
  /\ fpPc' = "done"
  /\ UNCHANGED <<fpCtxDone, fpOut, fpDelivered, fpCloses, fpRest>>

\* handleFingerprint, the deferred close(ch)
FingerprintClose ==
  /\ fpPc = "return"
  /\ fpCloses' = fpCloses + 1
  /\ fpPc' = "done"
  /\ UNCHANGED <<fpCtxDone, fpOut, fpDelivered, fpRest>>

\* handleFingerprint, case <-ticker.C: the timer is reset and the
\* fingerprint is built
FingerprintTickOn(lists) ==
  /\ fpPc = "select"
  /\ \E enabled, listed \in BOOLEAN, raw \in lists,
        installed \in (IF dCtxDone THEN {FALSE} ELSE BOOLEAN) :
       fpOut' = buildFingerprint(enabled, installed, listed, raw)
  /\ fpPc' = "send"
  /\ UNCHANGED <<fpCtxDone, fpDelivered, fpCloses, fpRest>>

\* a tick with any `tart list` result
FingerprintTick == FingerprintTickOn(VMLists)

\* handleFingerprint, ch <- d.buildFingerprint(): the receiver takes the value
FingerprintSend ==
  /\ fpPc = "send"
  /\ ~fpRecvGone
  /\ fpDelivered' = fpOut
  /\ fpOut' = NoFingerprint
  /\ fpPc' = "select"
  /\ UNCHANGED <<fpCtxDone, fpCloses, fpRest>>

NextFingerprint ==
  \/ Fingerprint
  \/ CancelFingerprint
  \/ FingerprintCtxDone
  \/ FingerprintClose
  \/ FingerprintTick
  \/ FingerprintSend

SpecFingerprint == Init /\ [][NextFingerprint]_vars

\* ------------------------------------------------------- TartClient.Exec
\* what `tart ip` can print
IpOutputs == {"192.168.64.2\n", "\n", ""}

\* strings.TrimSpace on those outputs
TrimSpace(str) == IF str = "192.168.64.2\n" THEN "192.168.64.2" ELSE ""

\* TartClient.IPAddress: failed says that cmd.Run() returned an error
IPAddress(failed, out) ==
  IF failed THEN [err |-> TRUE, ip |-> ""] ELSE [err |-> FALSE, ip |-> TrimSpace(out)]

\* what one address resolution can return
IpResults == { IPAddress(f, out) : f \in BOOLEAN, out \in IpOutputs }

\* how the ssh command of Exec can end: exit status 0, a non-zero exit
\* status (255 is ssh's own, for a connection that failed or dropped), an
\* error that is no exit status, or a pty that could not be started
SshResults == {"exit0", "exit1", "exit255", "error", "nostart"}

\* the exit status of an *exec.ExitError
ExitCodeOf(ssh) == IF ssh = "exit1" THEN 1 ELSE IF ssh = "exit255" THEN 255 ELSE 0

ErrCommandEmpty == "command is required but was empty"
ErrVMIP == "failed to get VM IP"
ErrSshStart == "failed to start ssh command"
ErrCtx == "context canceled"
ErrSsh == "ssh error"

\* an address resolution that is let through without a check
ExecNeedsNoAddress(ipRes) == FALSE

\* Exec, line 234: the resolution failed or gave no address
ExecNoAddress(ipRes) == ipRes.err \/ ipRes.ip = ""

\* TartClient.Exec: the result, and the subprocesses it started in order.
\* commandLen is len(opts.Command), ipRes what IPAddress returned, ssh how the
\* ssh command ended, ctxErr says that ctx.Err() != nil at that moment
Exec(commandLen, tty, ipRes, ssh, ctxErr) ==
  IF commandLen = 0
  THEN [exitCode |-> -1, err |-> ErrCommandEmpty, ran |-> << >>]
  ELSE IF ExecNoAddress(ipRes)
  THEN [exitCode |-> -1, err |-> ErrVMIP, ran |-> <<"tart ip">>]
  ELSE IF tty /\ ssh = "nostart"
  THEN [exitCode |-> -1, err |-> ErrSshStart, ran |-> <<"tart ip">>]
  ELSE IF ssh \in {"exit1", "exit255"}
  THEN [exitCode |-> ExitCodeOf(ssh), err |-> NoErr, ran |-> <<"tart ip", "sshpass">>]
  ELSE IF ssh = "exit0"
  THEN [exitCode |-> 0, err |-> NoErr, ran |-> <<"tart ip", "sshpass">>]
  ELSE IF ctxErr
  THEN [exitCode |-> -1, err |-> ErrCtx,
        ran |-> IF ssh = "nostart" THEN <<"tart ip">> ELSE <<"tart ip", "sshpass">>]
  ELSE [exitCode |-> -1, err |-> ErrSsh,
        ran |-> IF ssh = "nostart" THEN <<"tart ip">> ELSE <<"tart ip", "sshpass">>]

\* everything an Exec call leaves alone
execRest == <<store, driverVars, storeSpecVars, concVars, fpVars, syslogVars, loopVars, setupVars, startVars, builderVars, raceVars, statsVars>>

\* len(opts.Command) of the calls made
CommandLens == 0 .. 1

\* one Exec call, start to return, with what its subprocesses did
ExecCall ==
  /\ Len(exLog) < MaxExecCalls
  /\ \E commandLen \in CommandLens, tty \in BOOLEAN, ipRes \in IpResults,
        ssh \in SshResults, ctxErr \in BOOLEAN :
       exLog' = Append(exLog, [commandLen |-> commandLen, tty |-> tty, ipRes |-> ipRes,
                               ret |-> Exec(commandLen, tty, ipRes, ssh, ctxErr)])
  /\ UNCHANGED execRest

NextExec == ExecCall

SpecExec == Init /\ [][NextExec]_vars

\* ------------------------------------------------- streamSyslogWithRetry
\* the first delay and maxBackoff, in seconds
initialBackoff == 1
maxBackoff == 10

\* len of the command streamSyslogWithRetry passes: /usr/bin/log stream
\* --style syslog --level=info
syslogCommandLen == 4

\* a delay that doubles without the cap
nextBackoffUncapped(b) == IF b < maxBackoff THEN b * 2 ELSE b

\* streamSyslogWithRetry, lines 543-548: the delay after the next failure
nextBackoff(b) ==
  IF b < maxBackoff
  THEN (IF b * 2 > maxBackoff THEN maxBackoff ELSE b * 2)
  ELSE b

\* everything the log-stream supervisor leaves alone
syslogRest == <<store, driverVars, storeSpecVars, concVars, fpVars, loopVars, setupVars, execVars, startVars, builderVars, raceVars, statsVars>>

\* StartTask, lines 303-314: the goroutine is started under syslogCtx
StartSyslog ==
  /\ slPc = "idle"
  /\ slPc' = "select"
  /\ backoff' = initialBackoff
  /\ UNCHANGED <<slCtxDone, slAttempts, slSleeps, slIp, slLast, syslogRest>>

\* run() ends and its deferred h.syslogCancel() fires
CancelSyslog ==
  /\ slPc # "idle"
  /\ ~slCtxDone
  /\ slCtxDone' = TRUE
  /\ UNCHANGED <<slPc, backoff, slAttempts, slSleeps, slIp, slLast, syslogRest>>

\* lines 519-523: select with default at the top of the loop
SyslogSelect ==
  /\ slPc = "select"
  /\ slPc' = IF slCtxDone THEN "done" ELSE "exec"
  /\ UNCHANGED <<backoff, slCtxDone, slAttempts, slSleeps, slIp, slLast, syslogRest>>

\* the address resolutions a call can see: the command runs under the
\* context, so it fails once that is cancelled
SyslogIpResults == IF slCtxDone THEN {IPAddress(TRUE, "")} ELSE IpResults

\* lines 526-531: d.client.Exec is called; it returns at once when it gets
\* no address, otherwise the ssh command runs and the stream is established
SyslogExec ==
  /\ slPc = "exec"
  /\ slAttempts < MaxAttempts
  /\ slAttempts' = slAttempts + 1
  /\ \E ipRes \in SyslogIpResults :
       IF ExecNoAddress(ipRes)
       THEN /\ slLast' = Exec(syslogCommandLen, FALSE, ipRes, "exit0", slCtxDone)
            /\ slPc' = "errcheck"
            /\ slIp' = NoIp
       ELSE /\ slIp' = ipRes
            /\ slPc' = "streaming"
            /\ UNCHANGED slLast
  /\ UNCHANGED <<backoff, slCtxDone, slSleeps, syslogRest>>

\* the ssh command of the call ends and Exec returns; line 533 and 552-553
SyslogStreamEnd ==
  /\ slPc = "streaming"
  /\ \E ssh \in SshResults :
       /\ slLast' = Exec(syslogCommandLen, FALSE, slIp, ssh, slCtxDone)
       /\ slPc' = IF slLast'.err # NoErr THEN "errcheck" ELSE "done"
  /\ slIp' = NoIp
  /\ UNCHANGED <<backoff, slCtxDone, slAttempts, slSleeps, syslogRest>>

\* a supervisor that returns after a failed attempt
SyslogErrCheckReturns ==
  /\ slPc = "errcheck"
  /\ slPc' = "done"
  /\ UNCHANGED <<backoff, slCtxDone, slAttempts, slSleeps, slIp, slLast, syslogRest>>

\* lines 534-539: after a failed attempt, select with default
SyslogErrCheck ==
  /\ slPc = "errcheck"
  /\ slPc' = IF slCtxDone THEN "done" ELSE "sleep"
  /\ UNCHANGED <<backoff, slCtxDone, slAttempts, slSleeps, slIp, slLast, syslogRest>>

\* lines 541-550: time.Sleep(backoff), then the next delay, continue
SyslogSleep ==
  /\ slPc = "sleep"
  /\ slSleeps' = Append(slSleeps, backoff)
  /\ backoff' = nextBackoff(backoff)
  /\ slPc' = "select"
  /\ UNCHANGED <<slCtxDone, slAttempts, slIp, slLast, syslogRest>>

NextSyslog ==
  \/ StartSyslog
  \/ CancelSyslog
  \/ SyslogSelect
  \/ SyslogExec
  \/ SyslogStreamEnd
  \/ SyslogErrCheck
  \/ SyslogSleep

SpecSyslog == Init /\ [][NextSyslog]_vars

\* the supervisor goroutine keeps being scheduled, its sleeps end, and a
\* d.client.Exec call that gets no address returns
SyslogFairness ==
  /\ WF_vars(SyslogSelect) /\ WF_vars(SyslogExec)
  /\ WF_vars(SyslogErrCheck) /\ WF_vars(SyslogSleep)

SpecSyslogLive == SpecSyslog /\ SyslogFairness

\* ------------------------------------------------------- TartClient.Setup
\* An image reference is the sequence of the pieces between its '/' characters:
\* "https://ghcr.io/img" is <<"https:", "", "ghcr.io", "img">>.
Images ==
  { <<"https:", "", "ghcr.io", "img">>,   \* "https://ghcr.io/img"
    <<"ghcr.io", "img">>,                 \* "ghcr.io/img"
    <<"", "img">>,                        \* "/img"
    <<"https:", "", "", "img">>,          \* "https:///img"
    <<"%zz", "img">> }                    \* "%zz/img", a bad escape
Usernames == {"", "user1"}
Passwords == {"", "secret"}
CpuCores == {1, 4}
MemoryMBs == {0, 4096}
DiskGBs == {0, 20}

VMConfigs ==
  [Username : Usernames, Password : Passwords, URL : Images,
   cpu : CpuCores, memoryMB : MemoryMBs, DiskSize : DiskGBs]

\* Auth.IsValid with the password left out
IsValidUsernameOnly(a) == a.Username # ""

\* Auth.IsValid
IsValid(a) == a.Username # "" /\ a.Password # ""

\* url.Parse fails on a bad percent escape
UrlParseFails(image) == \E i \in 1 .. Len(image) : image[i] = "%zz"

\* url.URL.Host of a parsed reference: what follows "scheme://"
UrlHost(image) ==
  IF Len(image) >= 3 /\ image[1] = "https:" /\ image[2] = ""
  THEN image[3] ELSE ""

\* registryHost
registryHost(image) ==
  IF UrlParseFails(image) THEN [err |-> TRUE, host |-> ""]
  ELSE IF UrlHost(image) # "" THEN [err |-> FALSE, host |-> UrlHost(image)]
  ELSE IF Len(image) = 0 \/ image[1] = "" THEN [err |-> TRUE, host |-> ""]
  ELSE [err |-> FALSE, host |-> image[1]]

\* strconv.Itoa and fmt.Sprintf("%d"), for non-negative numbers
Digits == <<"0", "1", "2", "3", "4", "5", "6", "7", "8", "9">>
RECURSIVE Itoa(_)
Itoa(n) == IF n < 10 THEN Digits[n + 1] ELSE Itoa(n \div 10) \o Digits[(n % 10) + 1]

\* arguments that always name a disk size
SetArgsDiskAlways(cpu, memoryMB, diskGB) ==
  <<"set", "vmName">> \o (IF cpu > 0 THEN <<"--cpu", Itoa(cpu)>> ELSE << >>)
                      \o (IF memoryMB > 0 THEN <<"--memory", Itoa(memoryMB)>> ELSE << >>)
                      \o <<"--disk-size", Itoa(diskGB)>>

\* the arguments SetVMResources passes to tart (lines 298-307)
SetArgs(cpu, memoryMB, diskGB) ==
  <<"set", "vmName">> \o (IF cpu > 0 THEN <<"--cpu", Itoa(cpu)>> ELSE << >>)
                      \o (IF memoryMB > 0 THEN <<"--memory", Itoa(memoryMB)>> ELSE << >>)
                      \o (IF diskGB > 0 THEN <<"--disk-size", Itoa(diskGB)>> ELSE << >>)

\* SetVMResources: the tart command it runs, or none when no flag was added
\* (lines 309-314)
SetVMResources(cpu, memoryMB, diskGB) ==
  IF Len(SetArgs(cpu, memoryMB, diskGB)) = 2 THEN << >>
  ELSE << SetArgs(cpu, memoryMB, diskGB) >>

\* Setup, lines 68-69
defaultCpuCores == 4
defaultMemoryMB == 4096

\* the compute resources of a task: Resources or LinuxResources is nil, or
\* a cpuset and a memory limit in bytes are declared
CpusetCpus == {"", "0", "0,1", "0,1,2,3"}
MemoryLimitBytes == {0, 1048575, 536870912}
NomadResources ==
  [nil : {TRUE}, CpusetCpus : {""}, MemoryLimitBytes : {0}]
  \cup [nil : {FALSE}, CpusetCpus : CpusetCpus, MemoryLimitBytes : MemoryLimitBytes]

\* len(strings.Split(cpus, ",")): one more than the commas in cpus
SplitLen(cpus) ==
  CASE cpus = "0,1" -> 2 [] cpus = "0,1,2,3" -> 4 [] OTHER -> 1

\* Setup, lines 68-76 and 86: the values Setup passes to SetVMResources
SetupResources(res, diskSize) ==
  IF res.nil
  THEN [cpu |-> defaultCpuCores, memoryMB |-> defaultMemoryMB, diskGB |-> diskSize]
  ELSE [cpu |-> SplitLen(res.CpusetCpus),
        memoryMB |-> (res.MemoryLimitBytes \div 1024) \div 1024,
        diskGB |-> diskSize]

\* a tart subprocess that was run to its end
TartRun(cmd, host, user, ok) == [cmd |-> cmd, host |-> host, user |-> user, ok |-> ok]

setupRest == <<store, driverVars, storeSpecVars, concVars, fpVars, syslogVars, loopVars, execVars, startVars, builderVars, raceVars, statsVars>>

SetupReturns(err) ==
  /\ suPc' = "done"
  /\ suRet' = [returned |-> TRUE, err |-> err]

\* Setup is called
Setup ==
  /\ suPc = "idle"
  /\ \E config \in VMConfigs : suConfig' = config
  /\ suPc' = "login"
  /\ UNCHANGED <<suRan, suRet, setupRest>>

\* the login block: skipped without valid auth, else registryHost and `tart login`
SetupLogin ==
  /\ suPc = "login"
  /\ IF ~IsValid(suConfig)
     THEN suPc' = "clone" /\ UNCHANGED <<suRan, suRet>>
     ELSE IF registryHost(suConfig.URL).err
     THEN SetupReturns("failed to parse URL") /\ UNCHANGED suRan
     ELSE \E ok \in BOOLEAN :
            /\ suRan' = Append(suRan, TartRun("login", registryHost(suConfig.URL).host,
                                              suConfig.Username, ok))
            /\ IF ok THEN suPc' = "clone" /\ UNCHANGED suRet
               ELSE SetupReturns("failed to login to container registry")
  /\ UNCHANGED <<suConfig, setupRest>>

\* `tart clone url vmName`
SetupClone ==
  /\ suPc = "clone"
  /\ \E ok \in BOOLEAN :
       /\ suRan' = Append(suRan, TartRun("clone", "", "", ok))
       /\ IF ok THEN suPc' = "set" /\ UNCHANGED suRet
          ELSE SetupReturns("failed to create VM")
  /\ UNCHANGED <<suConfig, setupRest>>

\* SetVMResources: `tart set`, unless no resource is positive
SetupSetVMResources ==
  /\ suPc = "set"
  /\ IF Len(SetArgs(suConfig.cpu, suConfig.memoryMB, suConfig.DiskSize)) = 2
     THEN SetupReturns("none") /\ UNCHANGED suRan
     ELSE \E ok \in BOOLEAN :
            /\ suRan' = Append(suRan, TartRun("set", "", "", ok))
            /\ SetupReturns(IF ok THEN "none" ELSE "failed to set VM resources")
  /\ UNCHANGED <<suConfig, setupRest>>

NextSetup ==
  \/ Setup
  \/ SetupLogin
  \/ SetupClone
  \/ SetupSetVMResources

SpecSetup == Init /\ [][NextSetup]_vars

\* ------------------------------------------- StartTask, one step at a time
\* the network blocks a task can carry; allow and expose are softnet_allow
\* and softnet_expose
NetModes == {"", " Host ", "bridged", "softnet", "Shared", "vlan"}
BridgedInterfaces == {"", " ", "en0"}
SoftnetAllows == { << >>, <<"10.0.0.0/8">>, <<"10.0.0.0/8", "192.168.0.0/16">> }
SoftnetExposes == { << >>, <<"2222:22">> }
NetworkConfigs ==
  {NoNetwork} \cup
  [nil : {FALSE}, Mode : NetModes, BridgedInterface : BridgedInterfaces,
   allow : SoftnetAllows, expose : SoftnetExposes]

\* strings.TrimSpace on the configuration strings used here
Trimmed(str) ==
  IF str \in {" ", "  "} THEN ""
  ELSE IF str = " Host " THEN "Host"
  ELSE IF str = " cached " THEN "cached"
  ELSE IF str = " /data " THEN "/data"
  ELSE IF str = " build " THEN "build"
  ELSE str

\* strings.ToLower on the configuration strings used here
Lowered(str) ==
  IF str = "Host" THEN "host"
  ELSE IF str = "Shared" THEN "shared"
  ELSE IF str = " Cached " THEN " cached "
  ELSE IF str = "FULL" THEN "full"
  ELSE str

\* a mode that is taken as written
NormalizeModeAsWritten(mode) == mode

\* strings.ToLower(strings.TrimSpace(cfg.Mode))
NormalizeMode(mode) == Lowered(Trimmed(mode))

\* a join that keeps the first element only
JoinFirst(list, sep) == IF list = << >> THEN "" ELSE list[1]

\* strings.Join
RECURSIVE Join(_, _)
Join(list, sep) ==
  IF list = << >> THEN ""
  ELSE IF Len(list) = 1 THEN list[1]
  ELSE list[1] \o sep \o Join(Tail(list), sep)

ErrHostConflict == "networking options conflict: host mode"
ErrBridgedInterface == "bridged mode requires 'bridged_interface'"
ErrBridgedConflict == "networking options conflict: bridged mode"
ErrSoftnetConflict == "networking options conflict: softnet mode"
ErrUnknownMode == "unknown networking mode"
ErrDecodeConfig == "failed to decode driver config"

\* buildTartNetworkArgs: the error, or the flags for `tart run`
buildTartNetworkArgs(cfg) ==
  LET mode == NormalizeMode(cfg.Mode)
      isDefault == mode \in {"", "default", "shared", "nat"}
      bridgedIf == Trimmed(cfg.BridgedInterface)
      softnetOpts == Len(cfg.allow) > 0 \/ Len(cfg.expose) > 0
  IN  IF cfg.nil THEN [err |-> "none", args |-> << >>]
      ELSE IF mode = "host"
      THEN IF bridgedIf # "" \/ softnetOpts
           THEN [err |-> ErrHostConflict, args |-> << >>]
           ELSE [err |-> "none", args |-> <<"--net-host">>]
      ELSE IF mode = "bridged"
      THEN IF bridgedIf = ""
           THEN [err |-> ErrBridgedInterface, args |-> << >>]
           ELSE IF softnetOpts
           THEN [err |-> ErrBridgedConflict, args |-> << >>]
           ELSE [err |-> "none", args |-> <<"--net-bridged", bridgedIf>>]
      ELSE IF mode = "softnet" \/ (isDefault /\ softnetOpts)
      THEN IF bridgedIf # ""
           THEN [err |-> ErrSoftnetConflict, args |-> << >>]
           ELSE [err |-> "none",
                 args |-> <<"--net-softnet">>
                          \o (IF Len(cfg.allow) > 0
                              THEN <<"--net-softnet-allow", Join(cfg.allow, ",")>>
                              ELSE << >>)
                          \o (IF Len(cfg.expose) > 0
                              THEN <<"--net-softnet-expose", Join(cfg.expose, ",")>>
                              ELSE << >>)]
      ELSE IF ~isDefault THEN [err |-> ErrUnknownMode, args |-> << >>]
      ELSE [err |-> "none", args |-> << >>]

\* the errors that come from the task configuration
ConfigErrors ==
  {ErrDecodeConfig, ErrHostConflict, ErrBridgedInterface, ErrBridgedConflict,
   ErrSoftnetConflict, ErrUnknownMode}

startRest == <<store, driverVars, storeSpecVars, concVars, fpVars, syslogVars, loopVars, execVars, builderVars, raceVars, statsVars>>

StartReturns(err) ==
  /\ stPc' = "done"
  /\ stRet' = [returned |-> TRUE, err |-> err]

\* StartTask is called; lines 155-162: the id is looked up, the driver
\* configuration is decoded
StartCall ==
  /\ stPc = "idle"
  /\ \E registered, decodes \in BOOLEAN, network \in NetworkConfigs :
       /\ stCfg' = [registered |-> registered, decodes |-> decodes, Network |-> network]
       /\ IF registered THEN StartReturns(ErrAlreadyStarted)
          ELSE IF ~decodes THEN StartReturns(ErrDecodeConfig)
          ELSE stPc' = "list" /\ UNCHANGED stRet
  /\ UNCHANGED <<stRan, setupVars, startRest>>

\* lines 170-173: d.client.List runs `tart list`
StartList ==
  /\ stPc = "list"
  /\ stRan' = Append(stRan, "tart list")
  /\ \E ok \in BOOLEAN :
       IF ok THEN stPc' = "setup" /\ UNCHANGED stRet
       ELSE StartReturns("failed to list VMs")
  /\ UNCHANGED <<stCfg, setupVars, startRest>>

\* line 205: d.client.Setup is entered
StartSetup == stPc = "setup" /\ Setup

\* lines 205-207 and 222-231: Setup has returned; on success the executor
\* plugin is created
StartCreateExecutor ==
  /\ stPc = "setup"
  /\ suPc = "done"
  /\ IF suRet.err # "none" THEN StartReturns("failed to setup VM") /\ UNCHANGED stRan
     ELSE \E ok \in BOOLEAN :
            /\ stRan' = Append(stRan, "executor")
            /\ IF ok THEN stPc' = "network" /\ UNCHANGED stRet
               ELSE StartReturns("failed to create executor")
  /\ UNCHANGED <<stCfg, setupVars, startRest>>

\* lines 243-248: the network block is validated; an error kills the plugin
StartNetworkArgs ==
  /\ stPc = "network"
  /\ IF buildTartNetworkArgs(stCfg.Network).err # "none"
     THEN StartReturns(buildTartNetworkArgs(stCfg.Network).err)
     ELSE stPc' = "launch" /\ UNCHANGED stRet
  /\ UNCHANGED <<stCfg, stRan, setupVars, startRest>>

\* lines 261-265 and on: execImpl.Launch starts `tart run`
StartLaunch ==
  /\ stPc = "launch"
  /\ \E ok \in BOOLEAN :
       IF ok THEN /\ stRan' = Append(stRan, "tart run")
                  /\ StartReturns("none")
       ELSE /\ StartReturns("failed to launch VM")
            /\ UNCHANGED stRan
  /\ UNCHANGED <<stCfg, setupVars, startRest>>

NextStart ==
  \/ StartCall
  \/ StartList
  \/ StartSetup
  \/ SetupLogin
  \/ SetupClone
  \/ SetupSetVMResources
  \/ StartCreateExecutor
  \/ StartNetworkArgs
  \/ StartLaunch

SpecStart == Init /\ [][NextStart]_vars

\* ------------------------------------- argument builders and converters
\* everything a builder call leaves alone
builderRest ==
  <<store, driverVars, storeSpecVars, concVars, fpVars, syslogVars, loopVars,
    setupVars, execVars, startVars, raceVars, statsVars>>

\* a call of a pure function: its name, its input and its result are kept.
\* The functions keep nothing between calls, so a behaviour holds one call.
Called(fn, in, out) ==
  /\ bFn = "none"
  /\ bFn' = fn
  /\ bIn' = in
  /\ bOut' = out
  /\ UNCHANGED builderRest

\* buildTartNetworkArgs is called with some network block
NetworkArgsCall ==
  \E cfg \in NetworkConfigs :
    Called("buildTartNetworkArgs", cfg, buildTartNetworkArgs(cfg))

\* a *string option that was not set
NilString == "<nil>"

\* the root disk blocks a task can carry
CachingModes == {NilString, "automatic", "uncached", " Cached ", "writeback", ""}
SyncModes == {NilString, "fsync", "FULL", "none", "weekly"}
NilRootDisk == [nil |-> TRUE, ReadOnly |-> FALSE, CachingMode |-> NilString, SyncMode |-> NilString]
RootDiskConfigs ==
  {NilRootDisk} \cup
  [nil : {FALSE}, ReadOnly : BOOLEAN, CachingMode : CachingModes, SyncMode : SyncModes]

\* CleanValue: lower-case, then trim
CleanValue(value) == Trimmed(Lowered(value))

\* buildRootDiskArgs, lines 22-29 and 36-43: the switch leaves the mode empty
\* when the cleaned value is none of its cases
SwitchMode(raw, cases) == IF raw \in cases THEN raw ELSE ""

\* buildRootDiskArgs, lines 14-45: the options collected in args
RootDiskOpts(cfg) ==
  (IF cfg.ReadOnly THEN <<"ro">> ELSE << >>)
  \o (IF cfg.CachingMode # NilString
      THEN <<"caching=" \o SwitchMode(CleanValue(cfg.CachingMode),
                                      {"automatic", "uncached", "cached"})>>
      ELSE << >>)
  \o (IF cfg.SyncMode # NilString
      THEN <<"sync=" \o SwitchMode(CleanValue(cfg.SyncMode), {"fsync", "full", "none"})>>
      ELSE << >>)

\* a builder that emits nothing when no option is set
buildRootDiskArgsSkipEmpty(cfg) ==
  IF cfg.nil \/ RootDiskOpts(cfg) = << >> THEN [err |-> "none", args |-> << >>]
  ELSE [err |-> "none", args |-> <<"--root-disk-opts=" \o Join(RootDiskOpts(cfg), ",")>>]

\* buildRootDiskArgs: it has no error return other than nil
buildRootDiskArgs(cfg) ==
  IF cfg.nil THEN [err |-> "none", args |-> << >>]
  ELSE [err |-> "none", args |-> <<"--root-disk-opts=" \o Join(RootDiskOpts(cfg), ",")>>]

\* buildRootDiskArgs is called with some root disk block
RootDiskArgsCall ==
  \E cfg \in RootDiskConfigs :
    Called("buildRootDiskArgs", cfg, buildRootDiskArgs(cfg))

\* the directory blocks a task can carry: Options is nil when hasOptions is
\* FALSE
MountNames == {"", " build "}
MountPaths == {" ", "/data", " /data "}
MountTags == {"", " ", "assets"}
NoDirectoryOptions == [hasOptions |-> FALSE, ReadOnly |-> FALSE, Tag |-> ""]
DirectoryMounts ==
  [Name : MountNames, Path : MountPaths,
   Options : {NoDirectoryOptions} \cup
             [hasOptions : {TRUE}, ReadOnly : BOOLEAN, Tag : MountTags]]
MountLists == UNION { [1 .. n -> DirectoryMounts] : n \in 0 .. MaxMounts }

ErrDirectoryPath == "directory.path is required for directory mounts"

\* buildDirectoryArgs, lines 46-53: the options of one mount
DirOpts(d) ==
  IF ~d.Options.hasOptions THEN << >>
  ELSE (IF d.Options.ReadOnly THEN <<"ro">> ELSE << >>)
       \o (IF Trimmed(d.Options.Tag) # "" THEN <<"tag=" \o Trimmed(d.Options.Tag)>> ELSE << >>)

\* a mount token that never carries the name
DirSpecNoName(d) ==
  "--dir=" \o Trimmed(d.Path)
           \o (IF DirOpts(d) # << >> THEN ":" \o Join(DirOpts(d), ",") ELSE "")

\* buildDirectoryArgs, lines 39-61: the token of one mount
DirSpec(d) ==
  "--dir=" \o (IF Trimmed(d.Name) # "" THEN Trimmed(d.Name) \o ":" ELSE "")
           \o Trimmed(d.Path)
           \o (IF DirOpts(d) # << >> THEN ":" \o Join(DirOpts(d), ",") ELSE "")

\* buildDirectoryArgs: the loop over the mounts, which returns at the first
\* mount whose trimmed path is empty
RECURSIVE DirArgsFrom(_, _)
DirArgsFrom(dirs, args) ==
  IF dirs = << >> THEN [err |-> "none", args |-> args]
  ELSE IF Trimmed(Head(dirs).Path) = "" THEN [err |-> ErrDirectoryPath, args |-> << >>]
  ELSE DirArgsFrom(Tail(dirs), Append(args, DirSpec(Head(dirs))))

buildDirectoryArgs(dirs) == DirArgsFrom(dirs, << >>)

\* buildDirectoryArgs is called with some list of mounts
DirectoryArgsCall ==
  \E dirs \in MountLists :
    Called("buildDirectoryArgs", dirs, buildDirectoryArgs(dirs))

\* the state strings a `tart list` document can hold, and the documents
StatusStrings == RawStatuses \cup {"RUNNING", "Paused", "PAUSED", "", "unknown"}
StatusLists == UNION { [1 .. n -> StatusStrings] : n \in 0 .. MaxVMs }

\* TartClient.List parses some `tart list` document and converts every state
ListCall ==
  \E raw \in StatusLists : Called("List", raw, ListVMs(raw))

\* the process table relatedPIDs scans: the process at position i has pid i.
\* Exe and Files are what the process really has; exeErr and filesErr say
\* that p.Exe() and p.OpenFiles() fail for it
HelperExe == "/System/Library/Frameworks/com.apple.Virtualization.VirtualMachine"
ExePaths == {"/opt/homebrew/bin/tart", HelperExe}
DiskPath(vmName) == "/Users/nomad/.tart/" \o vmName \o "/disk.img"
OpenPaths == {DiskPath("vm1"), DiskPath("vm2")}
OSProcesses ==
  [Exe : ExePaths, exeErr : BOOLEAN, Files : SUBSET OpenPaths, filesErr : BOOLEAN]
ProcessTables == UNION { [1 .. n -> OSProcesses] : n \in 0 .. MaxProcs }
RelatedPIDsInputs ==
  [vmName : {"vm1"}, tartPID : 0 .. MaxProcs, homeErr : BOOLEAN, procsErr : BOOLEAN,
   processes : ProcessTables]

\* an executable test that lets every process through
IsHelperExeAny(exe) == TRUE

\* strings.Contains(exe, "Virtualization.VirtualMachine")
IsHelperExe(exe) == exe = HelperExe

\* relatedPIDs, lines 146-164: the loop over the processes from position i
RECURSIVE ScanProcesses(_, _, _, _)
ScanProcesses(processes, i, diskPath, pids) ==
  IF i > Len(processes) THEN pids
  ELSE LET p == processes[i]
           attributed == /\ ~p.exeErr
                         /\ IsHelperExe(p.Exe)
                         /\ ~p.filesErr
                         /\ diskPath \in p.Files
       IN  ScanProcesses(processes, i + 1, diskPath,
                         IF attributed THEN Append(pids, i) ELSE pids)

\* relatedPIDs
relatedPIDs(in) ==
  LET pids == IF in.tartPID > 0 THEN <<in.tartPID>> ELSE << >>
  IN  IF in.homeErr \/ in.procsErr THEN pids
      ELSE ScanProcesses(in.processes, 1, DiskPath(in.vmName), pids)

\* relatedPIDs is called for a VM, over some process table
RelatedPIDsCall ==
  \E in \in RelatedPIDsInputs : Called("relatedPIDs", in, relatedPIDs(in))

SpecRelatedPIDs == Init /\ [][RelatedPIDsCall]_vars

\* drivers.FSIsolationImage
FSIsolationImage == "image"

\* the package variable capabilities
capabilities == [SendSignals |-> TRUE, Exec |-> TRUE, FSIsolation |-> FSIsolationImage]

\* Driver.Capabilities
CapabilitiesCall == Called("Capabilities", << >>, capabilities)

\* SetVMResources is called with some core count, memory and disk size
SetVMResourcesCall ==
  \E cpu \in {0, 4}, memoryMB \in {0, 4096}, diskGB \in DiskGBs :
    Called("SetVMResources", <<cpu, memoryMB, diskGB>>,
           SetVMResources(cpu, memoryMB, diskGB))

\* the resource step of Setup, for some declared resources and disk size
SetupResourcesCall ==
  \E res \in NomadResources, diskSize \in DiskGBs :
    LET r == SetupResources(res, diskSize) IN
      Called("SetupResources", [res |-> res, DiskSize |-> diskSize],
             [used |-> r, ran |-> SetVMResources(r.cpu, r.memoryMB, r.diskGB)])

NextBuilders ==
  \/ SetVMResourcesCall
  \/ SetupResourcesCall
  \/ NetworkArgsCall
  \/ RootDiskArgsCall
  \/ DirectoryArgsCall
  \/ ListCall
  \/ CapabilitiesCall

SpecBuilders == Init /\ [][NextBuilders]_vars

\* ------------------------------------------ StartTask calls, several at once
\* everything a StartTask call leaves alone here; the handle call c builds is
\* known by the number of the call
raceRest ==
  <<driverVars, storeSpecVars, concVars, fpVars, syslogVars, loopVars, setupVars,
    execVars, startVars, builderVars, statsVars>>

\* the call returns err; it takes no further step
RaceReturns(c, err) ==
  /\ scPc' = [scPc EXCEPT ![c] = "done"]
  /\ scRet' = [scRet EXCEPT ![c] = [returned |-> TRUE, err |-> err]]

RaceGoes(c, pc) ==
  /\ scPc' = [scPc EXCEPT ![c] = pc]
  /\ UNCHANGED scRet

\* lines 155-157: the id is looked up in the registry
RaceCall(c, id) ==
  /\ scPc[c] = "idle"
  /\ scId' = [scId EXCEPT ![c] = id]
  /\ IF Get(store, id).ok THEN RaceReturns(c, ErrAlreadyStarted)
     ELSE RaceGoes(c, "prepare")
  /\ UNCHANGED <<store, scPlugin, scPs, raceRest>>

\* lines 159-232: decode, list, Setup, then executor.CreateExecutor; any of
\* them may fail, and nothing has been created when one does
RaceCreateExecutor(c) ==
  /\ scPc[c] = "prepare"
  /\ \/ /\ RaceReturns(c, ErrStartFailed)
        /\ UNCHANGED scPlugin
     \/ /\ scPlugin' = [scPlugin EXCEPT ![c] = "running"]
        /\ RaceGoes(c, "network")
  /\ UNCHANGED <<store, scId, scPs, raceRest>>

\* lines 243-248: buildTartNetworkArgs; an error kills the plugin
RaceNetworkArgs(c) ==
  /\ scPc[c] = "network"
  /\ \/ /\ scPlugin' = [scPlugin EXCEPT ![c] = "killed"]
        /\ RaceReturns(c, ErrUnknownMode)
     \/ /\ RaceGoes(c, "launch")
        /\ UNCHANGED scPlugin
  /\ UNCHANGED <<store, scId, scPs, raceRest>>

\* lines 261-265: execImpl.Launch; an error kills the plugin
RaceLaunch(c) ==
  /\ scPc[c] = "launch"
  /\ \/ /\ scPlugin' = [scPlugin EXCEPT ![c] = "killed"]
        /\ RaceReturns(c, "failed to launch VM")
        /\ UNCHANGED scPs
     \/ /\ scPs' = [scPs EXCEPT ![c] = "running"]
        /\ RaceGoes(c, "encode")
        /\ UNCHANGED scPlugin
  /\ UNCHANGED <<store, scId, raceRest>>

\* lines 273-280: handle.SetDriverState; an error shuts the launcher down and
\* kills the plugin
RaceSetDriverState(c) ==
  /\ scPc[c] = "encode"
  /\ \/ /\ scPs' = [scPs EXCEPT ![c] = "shutdown"]
        /\ scPlugin' = [scPlugin EXCEPT ![c] = "killed"]
        /\ RaceReturns(c, "failed to set driver state")
     \/ /\ RaceGoes(c, "logs")
        /\ UNCHANGED <<scPs, scPlugin>>
  /\ UNCHANGED <<store, scId, raceRest>>

\* lines 282-301: the taskHandle is built, the stdout and stderr files are
\* opened; an error returns at once
RaceOpenLogs(c) ==
  /\ scPc[c] = "logs"
  /\ \/ /\ UNCHANGED <<scPs, scPlugin>>
        /\ \E file \in {"stdout", "stderr"} :
             RaceReturns(c, "failed to open " \o file \o " file")
     \/ /\ RaceGoes(c, "register")
        /\ UNCHANGED <<scPs, scPlugin>>
  /\ UNCHANGED <<store, scId, raceRest>>

\* lines 303-319: the log stream is started, the handle is registered under
\* the id, h.run() is started, the call returns the handle
RaceRegister(c) ==
  /\ scPc[c] = "register"
  /\ store' = Set(store, scId[c], c)
  /\ RaceReturns(c, "none")
  /\ UNCHANGED <<scId, scPlugin, scPs, raceRest>>

NextRace ==
  \/ \E c \in Starters, id \in TaskIds : RaceCall(c, id)
  \/ \E c \in Starters : RaceCreateExecutor(c)
  \/ \E c \in Starters : RaceNetworkArgs(c)
  \/ \E c \in Starters : RaceLaunch(c)
  \/ \E c \in Starters : RaceSetDriverState(c)
  \/ \E c \in Starters : RaceOpenLogs(c)
  \/ \E c \in Starters : RaceRegister(c)

SpecRace == Init /\ [][NextRace]_vars

\* ------------------------------------- taskHandle.run, its deferred calls
\* the calls run defers, in the order its defer statements execute: close at
\* line 84, h.syslogCancel at line 86 (StartTask always sets it, line 304),
\* Unlock at line 98
RunDefersCloseSecond == <<"syslogCancel", "close", "Unlock">>
RunDefers == <<"close", "syslogCancel", "Unlock">>

\* how many deferred calls are still to run at a position of run
DefersLeft(pc) ==
  CASE pc = "defer3" -> 3 [] pc = "defer2" -> 2 [] pc = "defer1" -> 1 [] OTHER -> 0

AfterDefer(n) ==
  CASE n = 3 -> "defer2" [] n = 2 -> "defer1" [] OTHER -> "done"

\* run, lines 100-110: the remaining fields are written, run returns with
\* its three deferred calls pending
RunReturn(h) ==
  /\ runPc[h] \in {"publish_err", "publish_ok"}
  /\ IF runPc[h] = "publish_err"
     THEN /\ completedAt' = [completedAt EXCEPT ![h] = NowRun]
          /\ UNCHANGED results
     ELSE /\ results' = [results EXCEPT ![exitResult[h]].ExitCode = launcher[h].ExitCode,
                                        ![exitResult[h]].Signal = launcher[h].Signal]
          /\ completedAt' = [completedAt EXCEPT ![h] = PsTime]
  /\ runPc' = [runPc EXCEPT ![h] = "defer3"]
  /\ UNCHANGED <<store, state, exitResult, stateLock, doneCh, hTask, procVars,
                 waitVars, callVars, sideVars>>
  /\ last' = NoCall

\* the deferred calls run last in, first out
RunDeferred(h) ==
  /\ DefersLeft(runPc[h]) > 0
  /\ LET call == RunDefers[DefersLeft(runPc[h])] IN
       /\ stateLock' = IF call = "Unlock" THEN [stateLock EXCEPT ![h] = LockFree]
                       ELSE stateLock
       /\ slCtxDone' = IF call = "syslogCancel" THEN TRUE ELSE slCtxDone
       /\ doneCh' = IF call = "close" THEN [doneCh EXCEPT ![h] = TRUE] ELSE doneCh
  /\ runPc' = [runPc EXCEPT ![h] = AfterDefer(DefersLeft(runPc[h]))]
  /\ UNCHANGED <<store, state, completedAt, exitResult, results, hTask, procVars,
                 waitVars, callVars>>
  /\ UNCHANGED <<storeSpecVars, concVars, slPc, backoff, slAttempts, slSleeps,
                 slIp, slLast, setupVars, execVars, startVars, builderVars,
                 raceVars, statsVars, fpVars, loopVars>>
  /\ last' = NoCall

NextRun ==
  \/ \E id \in TaskIds : StartTask(id)
  \/ \E h \in Handles : LauncherExit(h)
  \/ \E h \in Handles : PluginCrash(h)
  \/ \E h \in Handles : RunStart(h)
  \/ \E h \in Handles : RunWait(h)
  \/ \E h \in Handles : RunReturn(h)
  \/ \E h \in Handles : RunDeferred(h)
  \/ \E id \in TaskIds : WaitTask(id)
  \/ \E w \in Waiters : CancelWait(w)
  \/ \E w \in Waiters : WaitCtxDone(w)
  \/ \E w \in Waiters : WaitPoll(w)
  \/ \E w \in Waiters : WaitConfirm(w)
  \/ \E w \in Waiters : WaitPublish(w)
  \/ \E w \in Waiters : WaitSend(w)
  \/ \E c \in Callers, id \in TaskIds : StopTaskCall(c, id)
  \/ \E c \in Callers : StopTaskShutdown(c)
  \/ \E c \in Callers : StopTaskDone(c)

SpecRun == Init /\ [][NextRun]_vars

\* ------------------------------------------------------------ collectStats
\* everything the stats collection leaves alone
statsRest ==
  <<store, driverVars, storeSpecVars, concVars, fpVars, syslogVars, loopVars,
    setupVars, execVars, startVars, builderVars, raceVars>>

\* the calls of gopsutil that sample one process, in the order collectStats
\* makes them
SampleStages == <<"NewProcess", "MemoryInfo", "Times", "Percent">>

\* what sampling one process gives: the call that fails, if any, and the
\* values read (memory in bytes, CPU times in milliseconds, CPU percent)
ProcSamples ==
  { [fails |-> f, RSS |-> 100, Swap |-> 7, System |-> 2, User |-> 3, Percent |-> 11] :
      f \in {"none", "NewProcess", "MemoryInfo", "Times", "Percent"} }
  \cup { [fails |-> "none", RSS |-> 250, Swap |-> 0, System |-> 1, User |-> 4,
          Percent |-> 50] }

\* the process tables a collection can see: every executable and open-file
\* list is readable; the launcher, when it has a PID, is the tart binary
StatsProcesses ==
  { q \in OSProcesses : ~q.exeErr /\ ~q.filesErr /\ q.Files \subseteq {DiskPath("vm1")} }
StatsTables == UNION { [1 .. n -> StatsProcesses] : n \in 0 .. MaxProcs }
StatsInputs ==
  { in \in [vmName : {"vm1"}, tartPID : {tsTartPID}, homeErr : {FALSE},
            procsErr : BOOLEAN, processes : StatsTables] :
      (in.tartPID > 0 /\ in.tartPID <= Len(in.processes))
        => ~IsHelperExe(in.processes[in.tartPID].Exe) }

\* float64(time.Second) over the milliseconds the model counts CPU times in
NanosPerMilli == 1000000

\* a sampling that gives up only before the CPU percent is read
SkippedBeforePercent(sample) == sample.fails \in {"NewProcess", "MemoryInfo", "Times"}

\* collectStats, lines 48-75: the process is left out of the sample when any
\* of the four calls fails
Skipped(sample) == sample.fails # "none"

\* collectStats, lines 48-57: the process object is cached unless NewProcess
\* failed; an object already cached is used again
Cached(cache, pid, sample) ==
  IF pid \in cache \/ sample.fails # "NewProcess" THEN cache \cup {pid} ELSE cache

\* with the object cached NewProcess is not called, so it cannot fail
SampleOf(cache, pid, sample) ==
  IF pid \in cache /\ sample.fails = "NewProcess"
  THEN [sample EXCEPT !.fails = "none"] ELSE sample

\* collectStats, lines 77-89: the ResourceUsage of one process
ResourceUsage(sample) ==
  [RSS |-> sample.RSS, Swap |-> sample.Swap,
   SystemMode |-> sample.System * NanosPerMilli,
   UserMode |-> sample.User * NanosPerMilli,
   Percent |-> sample.Percent]

\* collectStats, lines 47-97: the loop over pids from position i; acc holds
\* procCache, usageByPid and the five totals
RECURSIVE SamplePids(_, _, _, _)
SamplePids(pids, i, samples, acc) ==
  IF i > Len(pids) THEN acc
  ELSE LET pid == pids[i]
           sample == SampleOf(acc.cache, pid, samples[i])
           cache == Cached(acc.cache, pid, samples[i])
           ru == ResourceUsage(sample)
           key == Itoa(pid)
       IN  IF Skipped(sample)
           THEN SamplePids(pids, i + 1, samples, [acc EXCEPT !.cache = cache])
           ELSE SamplePids(pids, i + 1, samples,
                  [cache |-> cache,
                   Pids |-> [k \in DOMAIN acc.Pids \cup {key} |->
                               IF k = key THEN ru ELSE acc.Pids[k]],
                   RSS |-> acc.RSS + sample.RSS,
                   Swap |-> acc.Swap + sample.Swap,
                   SystemMode |-> acc.SystemMode + ru.SystemMode,
                   UserMode |-> acc.UserMode + ru.UserMode,
                   Percent |-> acc.Percent + sample.Percent])

\* Driver.TaskStats starts collectStats on a handle (line 30: an empty
\* procCache); h.pid is 0 for a handle built without a launcher
StatsStart ==
  /\ tsPc = "idle"
  /\ tsPc' = "select"
  /\ procCache' = {}
  /\ \E pid \in 0 .. 1 : tsTartPID' = pid
  /\ UNCHANGED <<tsCtxDone, tsPids, tsSamples, tsUsage, procTrackers, trPids, statsRest>>

\* the host cancels the context it passed to TaskStats
CancelStats ==
  /\ tsPc \notin {"idle", "done"}
  /\ ~tsCtxDone
  /\ tsCtxDone' = TRUE
  /\ UNCHANGED <<tsPc, procCache, tsPids, tsSamples, tsUsage, procTrackers, trPids,
                 tsTartPID, statsRest>>

\* collectStats, lines 34-35 and 118-119: case <-ctx.Done(), return; the
\* deferred close(ch) runs
StatsCtxDone ==
  /\ tsPc \in {"select", "send"}
  /\ tsCtxDone
  /\ tsPc' = "done"
  /\ UNCHANGED <<tsCtxDone, procCache, tsPids, tsSamples, tsUsage, procTrackers,
                 trPids, tsTartPID, statsRest>>

\* collectStats, lines 36-115: a tick; the PIDs are discovered, each is
\* sampled, the aggregate is built
StatsTick ==
  /\ tsPc = "select"
  /\ \E in \in StatsInputs :
       LET pids == relatedPIDs(in) IN
       \E samples \in [1 .. Len(pids) -> ProcSamples] :
         LET acc == SamplePids(pids, 1, samples,
                      [cache |-> procCache, Pids |-> << >>, RSS |-> 0, Swap |-> 0,
                       SystemMode |-> 0, UserMode |-> 0, Percent |-> 0])
         IN  /\ tsPids' = pids
             /\ tsSamples' = [i \in 1 .. Len(pids) |-> SampleOf(procCache, pids[i], samples[i])]
             /\ procCache' = acc.cache
             /\ tsUsage' = [RSS |-> acc.RSS, Swap |-> acc.Swap,
                            SystemMode |-> acc.SystemMode, UserMode |-> acc.UserMode,
                            Percent |-> acc.Percent, Pids |-> acc.Pids, built |-> TRUE]
  /\ tsPc' = "send"
  /\ UNCHANGED <<tsCtxDone, procTrackers, trPids, tsTartPID, statsRest>>

\* collectStats, line 120: case ch <- agg
StatsSend ==
  /\ tsPc = "send"
  /\ tsPc' = "select"
  /\ UNCHANGED <<tsCtxDone, procCache, tsPids, tsSamples, tsUsage, procTrackers,
                 trPids, tsTartPID, statsRest>>

\* the PID lists virtualizationPIDs can return: each process at most once
TrackerPidLists == {<< >>, <<1>>, <<2>>, <<1, 2>>}

\* vmStatsTracker.prune: the trackers of PIDs not in pids are deleted
prune(trackers, pids) == {pid \in trackers : \E i \in 1 .. Len(pids) : pids[i] = pid}

\* vmStatsTracker.statsForPID, lines 83-104: the trackers of pid are made
\* unless one of the three reads failed first
Tracked(sample) == sample.fails \notin {"NewProcess", "MemoryInfo", "Times"}

\* vmStatsTracker.collect: the PIDs are discovered, the trackers are pruned,
\* each PID is sampled
TrackerCollect ==
  /\ \E pids \in TrackerPidLists :
     \E samples \in [1 .. Len(pids) -> ProcSamples] :
       /\ trPids' = pids
       /\ procTrackers' = prune(procTrackers, pids)
                            \cup {pids[i] : i \in {j \in 1 .. Len(pids) : Tracked(samples[j])}}
  /\ UNCHANGED <<tsPc, tsCtxDone, procCache, tsPids, tsSamples, tsUsage, tsTartPID, statsRest>>

NextStats ==
  \/ StatsStart
  \/ CancelStats
  \/ StatsCtxDone
  \/ StatsTick
  \/ StatsSend
  \/ TrackerCollect

SpecStats == Init /\ [][NextStats]_vars

\* --------------------------------------------- the long-lived loops together
\* d.signalShutdown(): the driver context is cancelled.  Nothing in the
\* driver calls it; the action stands for a host that does.
SignalShutdown ==
  /\ ~dCtxDone
  /\ dCtxDone' = TRUE
  /\ last' = NoCall
  /\ UNCHANGED <<store, handleVars, procVars, runPc, waitVars, callVars,
                 quietVars, fpVars, wRecvGone, fpRecvGone>>

\* handleWait, case <-d.ctx.Done(): return, the deferred close(ch) runs
WaitDriverDone(w) ==
  /\ wPc[w] = "select"
  /\ dCtxDone
  /\ wPc' = [wPc EXCEPT ![w] = "done"]
  /\ UNCHANGED <<store, handleVars, procVars, runPc, wHandle, wStatus, wCause,
                 wCtxDone, wDelivered, callVars, sideVars>>
  /\ last' = NoCall

\* the host stops receiving from the wait channel once it has cancelled the
\* context it passed to WaitTask
WaitReceiverLeaves(w) ==
  /\ wCtxDone[w]
  /\ ~wRecvGone[w]
  /\ wRecvGone' = [wRecvGone EXCEPT ![w] = TRUE]
  /\ last' = NoCall
  /\ UNCHANGED <<store, handleVars, procVars, runPc, waitVars, callVars,
                 quietVars, fpVars, dCtxDone, fpRecvGone>>

\* a fingerprint step, taken while the rest of the driver runs
WithDriver(fingerprintStep) == fingerprintStep /\ last' = NoCall

\* the `tart list` result the emitter sees next to a task: its one VM
TaskVMLists == { <<"running">> }

\* StartTask while d.ctx is live: after the shutdown d.client.List(d.ctx)
\* fails and the call registers nothing (driver.go:170-173)
StartTaskLive(id) == ~dCtxDone /\ StartTask(id)

NextLoops ==
  \/ \E id \in TaskIds : StartTaskLive(id)
  \/ \E h \in Handles : LauncherExit(h)
  \/ \E h \in Handles : RunStart(h)
  \/ \E h \in Handles : RunWait(h)
  \/ \E h \in Handles : RunPublish(h)
  \/ \E id \in TaskIds : WaitTask(id)
  \/ \E w \in Waiters : CancelWait(w)
  \/ \E w \in Waiters : WaitCtxDone(w)
  \/ \E w \in Waiters : WaitDriverDone(w)
  \/ \E w \in Waiters : WaitReceiverLeaves(w)
  \/ \E w \in Waiters : WaitPoll(w)
  \/ \E w \in Waiters : WaitConfirm(w)
  \/ \E w \in Waiters : WaitPublish(w)
  \/ \E w \in Waiters : WaitSend(w)
  \/ SignalShutdown
  \/ WithDriver(Fingerprint)
  \/ WithDriver(CancelFingerprint)
  \/ WithDriver(FingerprintCtxDone)
  \/ WithDriver(FingerprintDriverDone)
  \/ WithDriver(FingerprintReceiverLeaves)
  \/ WithDriver(FingerprintClose)
  \/ WithDriver(FingerprintTickOn(TaskVMLists))
  \/ WithDriver(FingerprintSend)

SpecLoops == Init /\ [][NextLoops]_vars

\* every goroutine that can take a step is scheduled, and a select picks a
\* ready case at random, so a case that is ready again and again is taken;
\* nothing is assumed of the launcher, of the host or of the receivers
LoopsFairness ==
  /\ \A h \in Handles :
       WF_vars(RunStart(h)) /\ WF_vars(RunWait(h)) /\ WF_vars(RunPublish(h))
  /\ \A w \in Waiters :
       /\ SF_vars(WaitCtxDone(w)) /\ SF_vars(WaitDriverDone(w))
       /\ WF_vars(WaitPoll(w)) /\ WF_vars(WaitConfirm(w))
       /\ WF_vars(WaitPublish(w)) /\ WF_vars(WaitSend(w))
  /\ SF_vars(WithDriver(FingerprintCtxDone))
  /\ SF_vars(WithDriver(FingerprintDriverDone))
  /\ WF_vars(WithDriver(FingerprintClose))
  /\ WF_vars(WithDriver(FingerprintSend))

SpecLoopsLive == SpecLoops /\ LoopsFairness

Next ==
  \/ \E id \in TaskIds : StartTask(id)
  \/ \E h \in Handles : LauncherExit(h)
  \/ \E h \in Handles : PluginCrash(h)
  \/ \E h \in Handles : RunStart(h)
  \/ \E h \in Handles : RunWait(h)
  \/ \E h \in Handles : RunPublish(h)
  \/ \E id \in TaskIds : WaitTask(id)
  \/ \E w \in Waiters : CancelWait(w)
  \/ \E w \in Waiters : WaitCtxDone(w)
  \/ \E w \in Waiters : WaitPoll(w)
  \/ \E w \in Waiters : WaitConfirm(w)
  \/ \E w \in Waiters : WaitPublish(w)
  \/ \E w \in Waiters : WaitSend(w)
  \/ \E c \in Callers, id \in TaskIds : StopTaskCall(c, id)
  \/ \E c \in Callers : StopTaskShutdown(c)
  \/ \E c \in Callers : StopTaskDone(c)
  \/ \E c \in Callers, id \in TaskIds, force \in BOOLEAN : DestroyTaskCall(c, id, force)
  \/ \E c \in Callers : DestroyTaskCheck(c)
  \/ \E c \in Callers : DestroyTaskShutdown(c)
  \/ \E c \in Callers : DestroyTaskDelete(c)
  \/ \E id \in TaskIds : InspectTask(id)
  \/ \E id \in TaskIds : TaskStats(id)
  \/ \E id \in TaskIds : SignalTask(id)
  \/ \E id \in TaskIds : ExecTask(id)
  \/ \E id \in TaskIds : ExecTaskStreaming(id)

Spec == Init /\ [][Next]_vars

\* ============================================================== the claims

\* caller c takes a step of the call it is in
Steps(c) == cPc'[c] # cPc[c]

\* C1: DestroyTask(id, force=false) that finds a registered handle in state
\* Running returns the "cannot destroy running task" error, and neither the
\* lookup nor the check touches the registry, any handle field, the launcher,
\* the executor plugin, or issues a Shutdown or Kill.
C1_DestroyRunningRejected ==
  [][\A c \in Callers :
       /\ (cPc[c] = "idle" /\ cPc'[c] = "destroy_check")
            => UNCHANGED <<store, handleVars, procVars>>
       /\ (cPc[c] = "destroy_check" /\ Steps(c) /\ ~cCall[c].force
           /\ state[cCall[c].h] = TaskStateRunning)
            => /\ last' = RetOn(cCall[c].h, "DestroyTask", cCall[c].id, FALSE,
                                ErrCannotDestroy)
               /\ cPc'[c] = "idle"
               /\ UNCHANGED <<store, handleVars, procVars>>]_vars

\* C1 witness: a non-forced DestroyTask was just rejected; the task is still
\* registered, Running, and its launcher runs with no Shutdown issued.
C1_Witness ==
  /\ last.op = "DestroyTask" /\ ~last.force /\ last.err = ErrCannotDestroy
  /\ Get(store, last.id) = [handle |-> last.h, ok |-> TRUE]
  /\ state[last.h] = TaskStateRunning
  /\ launcher[last.h].st = "running"
  /\ ~shutdownCalled[last.h]

\* C2: a forced DestroyTask never deletes the registry entry of a Running
\* handle while the launcher is still running and neither a Shutdown nor a
\* Kill has been issued for it.
C2_ForceDestroyShutsDownFirst ==
  [][\A c \in Callers :
       (cPc[c] = "destroy_delete" /\ Steps(c) /\ cCall[c].force
        /\ state[cCall[c].h] = TaskStateRunning)
         => ~(/\ launcher[cCall[c].h].st = "running"
              /\ ~shutdownCalled[cCall[c].h]
              /\ ~killCalled[cCall[c].h])]_vars

\* C3: a StopTask or DestroyTask that returns for a handle that is Exited with
\* its launcher process gone returns no error.
C3_StopDestroyExitedNoError ==
  (/\ last.op \in {"StopTask", "DestroyTask"}
   /\ last.h # NilHandle
   /\ state[last.h] = TaskStateExited
   /\ launcher[last.h].st = "exited"
   /\ runPc[last.h] = "done")
    => last.err = ErrNil

\* C4: whenever StopTask returns nil for the handle it found, that handle is
\* no longer Running.
C4_StopNilMeansNotRunning ==
  (last.op = "StopTask" /\ last.err = ErrNil /\ last.h # NilHandle)
    => state[last.h] # TaskStateRunning

\* C5: Exited is terminal: no step changes the state of a handle that is
\* Exited.
C5_ExitedIsTerminal ==
  [][\A h \in Handles :
       state[h] = TaskStateExited => state'[h] = TaskStateExited]_vars

\* monitor w takes the lock and writes handle.state in this step
Marks(w) == wPc[w] # "mark" /\ wPc'[w] = "mark"

\* C6: in the poll-driven monitor a tick whose status read succeeds with a
\* non-Running status only moves the monitor to the confirmation read and
\* marks nothing; when the confirmation read reports
\* Running the monitor goes back to polling and changes no handle field and
\* sends nothing; and the monitor marks the handle after a non-Running read
\* only from the confirmation read, when that read did not report Running.
C6_ConfirmBeforeExited ==
  [][\A w \in Waiters :
       /\ (wPc[w] = "select" /\ wPc'[w] = "confirm")
            => UNCHANGED <<handleVars, wDelivered>>
       /\ (wPc[w] = "confirm" /\ wPc'[w] = "select")
            => /\ UNCHANGED <<handleVars, wDelivered>>
               /\ wCause'[w] = "rechecked"
       /\ (Marks(w) /\ wPc[w] = "select")
            => wCause'[w] = "poll_err" /\ wStatus'[w] = ""
       /\ (Marks(w) /\ wPc[w] = "confirm")
            => wCause'[w] = "confirmed" /\ wStatus'[w] # VMStateRunning
       /\ \A h \in Handles :
            (state'[h] # state[h] /\ stateLock'[h] = LockMon(w))
              => Marks(w) /\ wHandle[w] = h]_vars

\* C6 witness: a monitor is back at polling after a confirmation read that
\* reported Running; its handle is still Running with no completion time and
\* nothing was delivered on the wait channel.
C6_Witness ==
  \E w \in Waiters :
    /\ wPc[w] = "select" /\ wCause[w] = "rechecked"
    /\ state[wHandle[w]] = TaskStateRunning
    /\ completedAt[wHandle[w]] = ZeroTime
    /\ wDelivered[w] = NilResult

\* C7: when the status read of a tick fails, the monitor publishes, under one
\* hold of the lock, state Exited, a completion time and a new exit result with
\* exit code 1 and the error as cause; that result is what it sends on the wait
\* channel before it terminates, and from the marking on the handle is never
\* Running again.
C7_PollErrorPublished ==
  /\ [][\A w \in Waiters :
          (wPc[w] = "mark" /\ wCause[w] = "poll_err" /\ wPc'[w] # "mark")
            => /\ wPc'[w] = "send"
               /\ state'[wHandle[w]] = TaskStateExited
               /\ completedAt'[wHandle[w]] # ZeroTime
               /\ exitResult'[wHandle[w]] = MonObj(w)
               /\ results'[MonObj(w)].ExitCode = 1
               /\ results'[MonObj(w)].Err = ErrStatus
               /\ stateLock'[wHandle[w]] = LockFree]_vars
  /\ [](\A w \in Waiters :
          wCause[w] = "poll_err" =>
            /\ wPc[w] \in {"mark", "send", "done"}
            /\ state[wHandle[w]] # TaskStateRunning
            /\ (wPc[w] = "done") = (wDelivered[w] = MonObj(w)))

\* C7 witness: a monitor whose status read failed has delivered its result and
\* terminated.
C7_Witness ==
  \E w \in Waiters :
    /\ wPc[w] = "done" /\ wCause[w] = "poll_err"
    /\ wDelivered[w] = MonObj(w)
    /\ results[wDelivered[w]].Err = ErrStatus
    /\ state[wHandle[w]] = TaskStateExited

\* C8: every snapshot InspectTask returns is one the exit transition left
\* whole: state Running comes with a zero completion time; state Exited comes
\* with a non-zero completion time and a non-nil exit result, and the two
\* belong to the same transition (the executor's time stamp with the
\* launcher's exit code and signal, a monitor's time stamp with that monitor's
\* exit result).
C8_SnapshotsAreWhole ==
  (last.op = "InspectTask" /\ last.err = ErrNil) =>
    LET st == last.status
        h == Get(store, last.id).handle
    IN /\ st.State = TaskStateRunning => st.CompletedAt = ZeroTime
       /\ st.State = TaskStateExited =>
            /\ st.CompletedAt # ZeroTime
            /\ st.ExitResult # NilResult
            /\ st.CompletedAt = PsTime =>
                 /\ results[st.ExitResult].ExitCode = launcher[h].ExitCode
                 /\ results[st.ExitResult].Signal = launcher[h].Signal
            /\ \A w \in Waiters :
                 st.CompletedAt = NowMon(w) =>
                   /\ st.ExitResult = MonObj(w)
                   /\ results[st.ExitResult].ExitCode \in {0, 1}
                   /\ results[st.ExitResult].Signal = 0

\* C8 witness: InspectTask returned a snapshot in state Exited while a poll
\* monitor of the same handle is still between its two status reads.
C8_Witness ==
  /\ last.op = "InspectTask" /\ last.err = ErrNil
  /\ last.status.State = TaskStateExited
  /\ last.status.ExitResult # NilResult
  /\ \E w \in Waiters :
       wPc[w] = "confirm" /\ wHandle[w] = Get(store, last.id).handle

\* the operations that address a task by its id
TaskOps ==
  {"WaitTask", "StopTask", "DestroyTask", "InspectTask", "TaskStats", "SignalTask",
   "ExecTask", "ExecTaskStreaming"}

\* C9: a task-addressed operation called with an id that is not in the
\* registry returns the task-not-found sentinel and changes neither the
\* registry nor any handle, process, monitor or call in flight; no call on
\* such an id gets past its lookup and no monitor is started for it.
C9_UnknownIdNotFound ==
  [][\A id \in TaskIds \ DOMAIN store :
       /\ (last'.op \in TaskOps /\ last'.id = id /\ cPc' = cPc)
            => /\ last'.err = ErrTaskNotFound
               /\ UNCHANGED <<store, handleVars, procVars, runPc, waitVars, callVars>>
       /\ \A c \in Callers :
            (cPc[c] = "idle" /\ cPc'[c] # "idle") => cCall'[c].id # id
       /\ \A w \in Waiters :
            (wPc[w] = "idle" /\ wPc'[w] # "idle") => last'.id # id]_vars

\* C9 witness: an operation has just returned the sentinel for an id that a
\* handle was created for and that DestroyTask has removed since.
C9_Witness ==
  /\ last.op \in TaskOps \ {"DestroyTask"}
  /\ last.err = ErrTaskNotFound
  /\ last.id \notin DOMAIN store
  /\ \E h \in Handles : state[h] # NoState /\ hTask[h] = last.id

\* what a map returns for id after the calls of history hs: the handle of the
\* last Set of id if no Delete of id follows it, not-found otherwise
RECURSIVE MapAfter(_, _)
MapAfter(hs, id) ==
  IF hs = << >>
  THEN [handle |-> NilHandle, ok |-> FALSE]
  ELSE LET e == hs[Len(hs)]
       IN IF e.id = id /\ e.op = "Set" THEN [handle |-> e.handle, ok |-> TRUE]
          ELSE IF e.id = id /\ e.op = "Delete" THEN [handle |-> NilHandle, ok |-> FALSE]
          ELSE MapAfter(SubSeq(hs, 1, Len(hs) - 1), id)

\* C10: under any sequential history of Set/Get/Delete the registry answers
\* as a map: every Get returned what the calls before it determine (the handle
\* of the last Set of that key, a nil handle included, and not-found for a key
\* never set or deleted since), and so does a Get in the current state.
C10_StoreIsAMap ==
  /\ \A id \in TaskIds : Get(store, id) = MapAfter(hist, id)
  /\ \A i \in 1 .. Len(hist) :
       hist[i].op = "Get" =>
         [handle |-> hist[i].handle, ok |-> hist[i].ok]
           = MapAfter(SubSeq(hist, 1, i - 1), hist[i].id)

\* C10 witness: a nil handle was stored and a Get of its key reported it
\* present, then a Delete of a key that was never set left that entry alone.
C10_Witness ==
  /\ Len(hist) = 3
  /\ hist[1].op = "Set" /\ hist[1].handle = NilHandle
  /\ hist[2].op = "Get" /\ hist[2].id = hist[1].id /\ hist[2].ok
  /\ hist[3].op = "Delete" /\ hist[3].id # hist[1].id
  /\ Get(store, hist[1].id) = [handle |-> NilHandle, ok |-> TRUE]

\* C11: under any interleaving of concurrent Set/Get/Delete calls no two
\* callers are inside the registry together unless both only read; the map is
\* at every moment, and so once all callers have finished, what the calls
\* determine in the order they were applied (the handle of the last Set of a
\* key with no Delete of that key after it, absent otherwise); every Get
\* returned the entry of that moment; and a call on one key never changes the
\* entry of another key.
C11_StoreLinearizable ==
  /\ [](\A p, q \in StoreCallers :
          (p # q /\ sPc[p] = "inside" /\ sPc[q] = "inside")
            => ~WritesMap(sCall[p].op) /\ ~WritesMap(sCall[q].op))
  /\ [](\A id \in TaskIds : Get(store, id) = MapAfter(hist, id))
  /\ [](\A i \in 1 .. Len(hist) :
          hist[i].op = "Get" =>
            [handle |-> hist[i].handle, ok |-> hist[i].ok]
              = MapAfter(SubSeq(hist, 1, i - 1), hist[i].id))
  /\ [][\A p \in StoreCallers :
          (sPc[p] = "inside" /\ sPc'[p] = "idle")
            => /\ \A k \in TaskIds \ {sCall[p].id} : Get(store', k) = Get(store, k)
               /\ sCall[p].op = "Get" => store' = store]_vars

\* C11 witness: a call has been applied, one caller is inside Set on a key
\* that holds another handle, and a second caller waits for the lock with a
\* call on the same key.
C11_Witness ==
  \E p, q \in StoreCallers :
    /\ p # q /\ Len(hist) > 0
    /\ sPc[p] = "inside" /\ sCall[p].op = "Set"
    /\ Get(store, sCall[p].id).ok
    /\ Get(store, sCall[p].id).handle # sCall[p].handle
    /\ sPc[q] = "lock" /\ sCall[q].id = sCall[p].id /\ sCall[q].op # "Get"

\* the number of listed VMs whose status is Running
RunningIn(vms) == Cardinality({i \in DOMAIN vms : vms[i] = VMStateRunning})

\* C12: the available-slot count of a fingerprint that listed the VMs is
\* max(0, 2 - r) for r listed VMs with status Running: 2, 1, 0, 0 for
\* r = 0, 1, 2, 3, never negative, whatever the number of Stopped and Paused VMs.
C12_AvailableSlots ==
  \A fp \in {fpOut, fpDelivered} :
    fp.counted =>
      LET r == RunningIn(fp.vms)
      IN /\ fp.slots >= 0
         /\ fp.slots = (IF r >= 2 THEN 0 ELSE 2 - r)
         /\ r = 0 => fp.slots = 2
         /\ r = 1 => fp.slots = 1
         /\ r = 2 => fp.slots = 0
         /\ r = 3 => fp.slots = 0

\* C12 witness: a fingerprint was delivered that counted three Running VMs
\* and reports no slot.
C12_Witness ==
  /\ fpDelivered.counted
  /\ RunningIn(fpDelivered.vms) = 3
  /\ fpDelivered.slots = 0

\* C13: the delays the log-stream supervisor sleeps between failed attempts
\* are 1s, 2s, 4s, 8s, 10s, 10s, ...: the i-th is min(2^(i-1), 10), so the
\* sequence starts at 1, doubles, never decreases and never exceeds 10.
C13_BackoffSequence ==
  /\ \A i \in 1 .. Len(slSleeps) :
       /\ slSleeps[i] = (IF 2 ^ (i - 1) < 10 THEN 2 ^ (i - 1) ELSE 10)
       /\ slSleeps[i] <= 10
       /\ i > 1 => slSleeps[i] >= slSleeps[i - 1]
  /\ Len(slSleeps) >= 1 => slSleeps[1] = 1
  /\ slPc # "idle" => backoff \in 1 .. 10

\* C13 witness: six failed attempts were slept out, the last two at the cap.
C13_Witness ==
  /\ Len(slSleeps) >= 6
  /\ slSleeps[5] = 10 /\ slSleeps[6] = 10

\* C14: the log-stream supervisor ends only when the cancellation has fired
\* or an Exec attempt returned without error, never because of the number of
\* failed attempts: after the n-th attempt has failed, either the
\* cancellation fires or an (n+1)-th attempt is made.
C14_NeverGivesUp ==
  /\ [][(slPc # "done" /\ slPc' = "done")
          => (slCtxDone \/ (slPc = "streaming" /\ slLast'.err = NoErr))]_vars
  /\ [](slPc = "done" => (slCtxDone \/ slLast.err = NoErr))
  /\ \A n \in 1 .. (MaxAttempts - 1) :
       (slPc = "errcheck" /\ slAttempts = n) ~> (slAttempts = n + 1 \/ slCtxDone)

\* C14 witness: a sixth attempt is in progress after five failed ones, with
\* the cancellation not fired.
C14_Witness ==
  /\ slAttempts >= 6 /\ Len(slSleeps) >= 5
  /\ slPc = "streaming"
  /\ ~slCtxDone

\* C15: while the per-task cancellation has not fired, the end of an
\* established log stream never makes the supervisor stop for good.
C15_StreamEndRestarts ==
  [][(slPc = "streaming" /\ slPc' = "done") => slCtxDone]_vars

\* C16: once the wait monitor or the fingerprint emitter has taken the branch
\* of the call-scoped cancellation or of the driver-wide shutdown, it sends
\* no further value; the channel is closed exactly once, when the loop exits,
\* and no value is sent on a closed channel.
C16_CancelStopsSends ==
  [][ /\ \A w \in Waiters :
           wPc[w] = "done"
             => wPc'[w] = "done" /\ wDelivered'[w] = wDelivered[w]
      /\ fpPc \in {"return", "done"}
           => fpPc' \in {"return", "done"} /\ fpDelivered' = fpDelivered
      /\ fpCloses' # fpCloses => fpCloses = 0 /\ fpCloses' = 1
      /\ fpPc' = "done" => fpCloses' = 1
      /\ fpPc' # "done" => fpCloses' = 0
      /\ fpDelivered' # fpDelivered => fpCloses = 0 ]_vars

\* both loops have sent a value or been cancelled: the emitter delivered a
\* fingerprint, then saw the shutdown and closed its channel, and the
\* monitor returned on its cancelled context without a result
C16_Witness ==
  /\ fpPc = "done" /\ fpCloses = 1 /\ dCtxDone /\ ~fpCtxDone
  /\ fpDelivered # NoFingerprint
  /\ \E w \in Waiters :
       wPc[w] = "done" /\ wCtxDone[w] /\ wDelivered[w] = NilResult


\* C17: the process-exit watcher, the poll monitor and the fingerprint
\* emitter terminate once the driver-wide shutdown has fired, and the monitor
\* and the emitter terminate once their call-scoped context is cancelled.
C17_LoopsTerminate ==
  /\ \A h \in Handles :
       (dCtxDone /\ runPc[h] # "none") ~> (runPc[h] = "done")
  /\ \A w \in Waiters :
       ((wCtxDone[w] \/ dCtxDone) /\ wPc[w] # "idle") ~> (wPc[w] = "done")
  /\ ((fpCtxDone \/ dCtxDone) /\ fpPc # "idle") ~> (fpPc = "done")

\* C18: Setup runs login, clone, set in that order, each at most once; with
\* a username and a password both non-empty the clone is preceded by a
\* completed login for the registry host of the image with that username; a
\* failed login or a failed clone returns an error and nothing is run after
\* it; without valid auth no login is run.
CmdRank(cmd) == IF cmd = "login" THEN 1 ELSE IF cmd = "clone" THEN 2 ELSE 3

C18_SetupOrder ==
  /\ \A i, j \in 1 .. Len(suRan) :
       i < j => CmdRank(suRan[i].cmd) < CmdRank(suRan[j].cmd)
  /\ \A i \in 1 .. Len(suRan) :
       /\ suRan[i].cmd = "clone" /\ suConfig.Username # "" /\ suConfig.Password # ""
            => /\ i = 2
               /\ suRan[1] = TartRun("login", registryHost(suConfig.URL).host,
                                     suConfig.Username, TRUE)
               /\ suRan[1].host \in {"ghcr.io", "https:"}
       /\ ~suRan[i].ok
            => i = Len(suRan) /\ suPc = "done" /\ suRet.err # "none"
       /\ suRan[i].cmd = "login"
            => suConfig.Username # "" /\ suConfig.Password # ""

\* a login succeeded, then the clone failed and Setup returned its error
C18_Witness ==
  /\ suPc = "done"
  /\ Len(suRan) = 2
  /\ suRan[1].cmd = "login" /\ suRan[1].ok /\ suRan[1].host = "ghcr.io"
  /\ suRan[2].cmd = "clone" /\ ~suRan[2].ok
  /\ suRet.err = "failed to create VM"

\* C19: Exec never retries: a call resolves the address at most once and
\* opens at most one guest shell; when the resolution fails or gives an empty
\* address the call returns an error without opening a guest shell; an empty
\* command is rejected before any resolution.
TimesRan(ran, cmd) == Cardinality({ i \in 1 .. Len(ran) : ran[i] = cmd })

C19_ExecNoRetry ==
  \A i \in 1 .. Len(exLog) :
    LET e == exLog[i] IN
      /\ TimesRan(e.ret.ran, "tart ip") <= 1
      /\ TimesRan(e.ret.ran, "sshpass") <= 1
      /\ e.commandLen > 0 /\ (e.ipRes.err \/ e.ipRes.ip = "")
           => e.ret.err # NoErr /\ TimesRan(e.ret.ran, "sshpass") = 0
      /\ e.commandLen = 0
           => e.ret.err # NoErr /\ e.ret.ran = << >>

\* one call was made with an empty command, and one whose resolution
\* succeeded with an empty address
C19_Witness ==
  /\ \E i \in 1 .. Len(exLog) :
       exLog[i].commandLen = 0 /\ exLog[i].ret.err = ErrCommandEmpty
  /\ \E i \in 1 .. Len(exLog) :
       /\ exLog[i].commandLen > 0
       /\ ~exLog[i].ipRes.err /\ exLog[i].ipRes.ip = ""
       /\ exLog[i].ret = [exitCode |-> -1, err |-> ErrVMIP, ran |-> <<"tart ip">>]

\* C20: a StartTask call that ends with a task configuration error has run
\* no tart subprocess for that task: no list, login, clone or set command
\* and no launcher.
C20_ConfigErrorBeforeSubprocess ==
  stRet.returned /\ stRet.err \in ConfigErrors
    => /\ suRan = << >>
       /\ \A i \in 1 .. Len(stRan) : stRan[i] \notin {"tart list", "tart run"}

\* C21: for every network block buildTartNetworkArgs selects exactly one of
\* host, bridged, softnet, default, or returns an error; it returns an error
\* for host with a bridged interface or an allow/expose entry, for bridged
\* with an allow/expose entry, for bridged without an interface, for softnet
\* with a bridged interface, and for a mode that, trimmed and lower-cased, is
\* not host, bridged, softnet or a default alias.
NetModeFlags == {"--net-host", "--net-bridged", "--net-softnet"}
HostModes == {" Host "}
DefaultModes == {"", "Shared"}
HasInterface(cfg) == cfg.BridgedInterface \notin {"", " "}
HasSoftnetOpts(cfg) == cfg.allow # << >> \/ cfg.expose # << >>

C21_NetworkModeOrError ==
  bFn = "buildTartNetworkArgs" /\ ~bIn.nil =>
    /\ bOut.err = "none"
         => Cardinality({ i \in 1 .. Len(bOut.args) : bOut.args[i] \in NetModeFlags }) <= 1
    /\ bOut.err # "none" => bOut.args = << >>
    /\ bIn.Mode \in HostModes /\ (HasInterface(bIn) \/ HasSoftnetOpts(bIn))
         => bOut.err # "none"
    /\ bIn.Mode \in HostModes /\ ~HasInterface(bIn) /\ ~HasSoftnetOpts(bIn)
         => bOut.err = "none"
    /\ bIn.Mode = "bridged" /\ (HasSoftnetOpts(bIn) \/ ~HasInterface(bIn))
         => bOut.err # "none"
    /\ bIn.Mode = "softnet" /\ HasInterface(bIn) => bOut.err # "none"
    /\ bIn.Mode \notin HostModes \cup DefaultModes \cup {"bridged", "softnet"}
         => bOut.err # "none"

\* host mode written " Host " was called with a bridged interface and
\* refused
C21_Witness ==
  /\ bFn = "buildTartNetworkArgs"
  /\ ~bIn.nil /\ bIn.Mode = " Host " /\ bIn.BridgedInterface = "en0"
  /\ bOut.err = ErrHostConflict

\* C22: for every accepted network block the arguments are exactly: none
\* for default (a nil block included), --net-host for host, --net-bridged
\* and the interface for bridged, and for softnet --net-softnet, then
\* --net-softnet-allow with the comma-joined allow list iff it is not empty,
\* then --net-softnet-expose with the comma-joined expose list iff it is not
\* empty; softnet is selected without a mode when allow or expose is not
\* empty.
CommaJoined(list) ==
  IF list = << >> THEN ""
  ELSE IF list = <<"10.0.0.0/8", "192.168.0.0/16">> THEN "10.0.0.0/8,192.168.0.0/16"
  ELSE list[1]

SoftnetArgs(cfg) ==
  <<"--net-softnet">>
    \o (IF cfg.allow # << >> THEN <<"--net-softnet-allow", CommaJoined(cfg.allow)>> ELSE << >>)
    \o (IF cfg.expose # << >> THEN <<"--net-softnet-expose", CommaJoined(cfg.expose)>> ELSE << >>)

C22_NetworkArgs ==
  bFn = "buildTartNetworkArgs" /\ bOut.err = "none" =>
    IF bIn.nil THEN bOut.args = << >>
    ELSE IF bIn.Mode \in HostModes THEN bOut.args = <<"--net-host">>
    ELSE IF bIn.Mode = "bridged" THEN bOut.args = <<"--net-bridged", "en0">>
    ELSE IF bIn.Mode = "softnet" \/ HasSoftnetOpts(bIn) THEN bOut.args = SoftnetArgs(bIn)
    ELSE bOut.args = << >>

\* no mode was written and two allow entries and one expose entry were given
C22_Witness ==
  /\ bFn = "buildTartNetworkArgs"
  /\ ~bIn.nil /\ bIn.Mode = "" /\ Len(bIn.allow) = 2 /\ Len(bIn.expose) = 1
  /\ bOut = [err |-> "none",
             args |-> <<"--net-softnet", "--net-softnet-allow",
                        "10.0.0.0/8,192.168.0.0/16", "--net-softnet-expose", "2222:22">>]

\* C23: buildRootDiskArgs returns no argument for a nil block, and for
\* every other block exactly one token: --root-disk-opts= followed by the
\* options that are present, comma-joined, in the order ro, caching=<mode>,
\* sync=<mode>; with no option set the tail is empty.
CleanCaching(mode) == IF mode = " Cached " THEN "cached" ELSE mode
CleanSync(mode) == IF mode = "FULL" THEN "full" ELSE mode
ValidCaching == {"automatic", "uncached", " Cached "}
ValidSync == {"fsync", "FULL", "none"}

WithCommas(parts) ==
  IF Len(parts) = 0 THEN ""
  ELSE IF Len(parts) = 1 THEN parts[1]
  ELSE IF Len(parts) = 2 THEN parts[1] \o "," \o parts[2]
  ELSE parts[1] \o "," \o parts[2] \o "," \o parts[3]

ExpectedDiskOpts(cfg) ==
  (IF cfg.ReadOnly THEN <<"ro">> ELSE << >>)
  \o (IF cfg.CachingMode # "<nil>"
      THEN <<"caching=" \o CleanCaching(cfg.CachingMode)>> ELSE << >>)
  \o (IF cfg.SyncMode # "<nil>"
      THEN <<"sync=" \o CleanSync(cfg.SyncMode)>> ELSE << >>)

C23_RootDiskToken ==
  bFn = "buildRootDiskArgs" =>
    /\ bIn.nil => bOut.args = << >>
    /\ ~bIn.nil => Len(bOut.args) = 1
    /\ ~bIn.nil /\ bIn.CachingMode \in ValidCaching \cup {"<nil>"}
                /\ bIn.SyncMode \in ValidSync \cup {"<nil>"}
         => bOut.args = <<"--root-disk-opts=" \o WithCommas(ExpectedDiskOpts(bIn))>>

\* all three options were set, the modes written " Cached " and "FULL"
C23_Witness ==
  /\ bFn = "buildRootDiskArgs"
  /\ ~bIn.nil /\ bIn.ReadOnly /\ bIn.CachingMode = " Cached " /\ bIn.SyncMode = "FULL"
  /\ bOut.args = <<"--root-disk-opts=ro,caching=cached,sync=full">>

\* C24: a caching mode outside automatic, uncached, cached, or a sync mode
\* outside fsync, full, none (after lower-casing and trimming), makes
\* buildRootDiskArgs return an error and no token.
C24_InvalidModeIsError ==
  bFn = "buildRootDiskArgs" /\ ~bIn.nil
    /\ (bIn.CachingMode \notin ValidCaching \cup {"<nil>"}
        \/ bIn.SyncMode \notin ValidSync \cup {"<nil>"})
    => bOut.err # "none" /\ bOut.args = << >>

\* C25: buildDirectoryArgs emits one token per mount, in input order, of
\* the form --dir=[name:]path[:opts]: the name prefix iff the trimmed name is
\* not empty; opts is ro (iff read-only) then tag=<value> (iff the trimmed
\* tag is not empty), comma-joined, and left out with its colon when neither
\* applies; a mount with an empty or blank path makes the whole call return
\* an error and no argument.
ExpectedDirToken(d) ==
  LET ro == d.Options.hasOptions /\ d.Options.ReadOnly
      tagged == d.Options.hasOptions /\ d.Options.Tag = "assets"
  IN  "--dir=" \o (IF d.Name = " build " THEN "build:" ELSE "")
               \o "/data"
               \o (IF ro /\ tagged THEN ":ro,tag=assets"
                   ELSE IF ro THEN ":ro"
                   ELSE IF tagged THEN ":tag=assets"
                   ELSE "")

C25_DirectoryTokens ==
  bFn = "buildDirectoryArgs" =>
    IF \E i \in 1 .. Len(bIn) : bIn[i].Path \in {"", " "}
    THEN bOut.err # "none" /\ bOut.args = << >>
    ELSE /\ bOut.err = "none"
         /\ Len(bOut.args) = Len(bIn)
         /\ \A i \in 1 .. Len(bIn) : bOut.args[i] = ExpectedDirToken(bIn[i])

\* two mounts were given: a named, read-only, tagged one and a plain one
C25_Witness ==
  /\ bFn = "buildDirectoryArgs"
  /\ bOut.err = "none"
  /\ bOut.args = <<"--dir=build:/data:ro,tag=assets", "--dir=/data">>

\* a call with a good mount followed by one with a blank path was refused
C25_WitnessRefused ==
  /\ bFn = "buildDirectoryArgs"
  /\ Len(bIn) = 2 /\ bIn[1].Path = "/data" /\ bIn[2].Path = " "
  /\ bOut.err = ErrDirectoryPath

\* C26: convertTartStatus is total and case-insensitive: any casing of
\* "running" gives Running, any casing of "paused" gives Paused, every other
\* string gives Stopped; so every VM that List returns has a status among
\* Running, Paused, Stopped.
C26_StatusConversion ==
  bFn = "List" =>
    /\ Len(bOut) = Len(bIn)
    /\ \A i \in 1 .. Len(bIn) :
         /\ bOut[i] \in {VMStateRunning, VMStatePaused, VMStateStopped}
         /\ bIn[i] \in {"running", "Running", "RUNNING"} <=> bOut[i] = VMStateRunning
         /\ bIn[i] \in {"paused", "Paused", "PAUSED"} <=> bOut[i] = VMStatePaused

\* a list held an upper-case running VM, an upper-case paused VM and a VM
\* with an empty state
C26_Witness ==
  /\ bFn = "List"
  /\ bIn = <<"RUNNING", "PAUSED", "">>
  /\ bOut = <<VMStateRunning, VMStatePaused, VMStateStopped>>

\* C27, as stated: the processes attributed to a VM are exactly the launcher
\* PID when it is greater than zero, plus every live process whose
\* executable matches the helper pattern and that holds the VM's disk image
\* open.
Attributed == { bOut[i] : i \in 1 .. Len(bOut) }
Launcher == IF bIn.tartPID > 0 THEN {bIn.tartPID} ELSE {}
HelpersHoldingDisk ==
  { i \in 1 .. Len(bIn.processes) :
      /\ bIn.processes[i].Exe = HelperExe
      /\ "/Users/nomad/.tart/vm1/disk.img" \in bIn.processes[i].Files }

C27_AttributionExact ==
  bFn = "relatedPIDs" => Attributed = Launcher \cup HelpersHoldingDisk

\* C27, amended: the attributed processes are the launcher PID when it is
\* greater than zero, plus, when the home directory and the process table
\* could be read, every helper-pattern process holding the disk image whose
\* executable path and open files could be read; no other process is ever
\* attributed.
Inspectable ==
  { i \in 1 .. Len(bIn.processes) :
      ~bIn.processes[i].exeErr /\ ~bIn.processes[i].filesErr }

C27_AttributionOfInspected ==
  bFn = "relatedPIDs" =>
    /\ Attributed \subseteq Launcher \cup HelpersHoldingDisk
    /\ IF bIn.homeErr \/ bIn.procsErr
       THEN Attributed = Launcher
       ELSE Attributed = Launcher \cup (HelpersHoldingDisk \cap Inspectable)

\* with no launcher PID, a helper holding the disk was attributed, while a
\* helper holding another VM's disk was not
C27_Witness ==
  /\ bFn = "relatedPIDs"
  /\ bIn.tartPID = 0 /\ ~bIn.homeErr /\ ~bIn.procsErr
  /\ Len(bIn.processes) = 2
  /\ bIn.processes[1].Exe = HelperExe /\ bIn.processes[1].Files = {DiskPath("vm2")}
  /\ bIn.processes[2].Exe = HelperExe /\ DiskPath("vm1") \in bIn.processes[2].Files
  /\ bOut = <<2>>

\* C28: the Capabilities call reports SendSignals = false, Exec = true and
\* image-level filesystem isolation.
C28_Capabilities ==
  bFn = "Capabilities" =>
    /\ bOut.SendSignals = FALSE
    /\ bOut.Exec = TRUE
    /\ bOut.FSIsolation = "image"

\* C29: a single failed status poll is swallowed: the step in which a
\* monitor's status read fails leaves the monitor polling and leaves the
\* state of every handle as it was.
C29_FailedPollSwallowed ==
  [][ \A w \in Waiters :
        (wPc[w] = "select" /\ wCause'[w] = "poll_err" /\ wCause'[w] # wCause[w])
          => wPc'[w] = "select" /\ state' = state ]_vars

\* C30: whenever the wait of the process-exit watcher returns, with or
\* without an error, the handle's state becomes Exited and no other state,
\* and its completion time is set; with an error the cause is recorded in
\* the exit result.
C30_RunMarksExited ==
  [][ \A h \in Handles :
        /\ (runPc[h] = "wait" /\ runPc'[h] # "wait")
             => state'[h] = TaskStateExited
        /\ (runPc[h] # "done" /\ runPc'[h] = "done")
             => /\ completedAt'[h] # ZeroTime
                /\ runPc[h] = "publish_err" => results'[exitResult'[h]].Err # NoErr ]_vars


\* the calls that returned no error
Started(id) == {c \in Starters : scId[c] = id /\ scRet[c].returned /\ scRet[c].err = "none"}

\* C31: per task id at most one StartTask call ever launches and registers a
\* handle: a call for an id that is registered is rejected with "already
\* started", and of two concurrent calls for one id only one launches and
\* registers a handle, so no registered handle is replaced.
C31_OneStartPerId ==
  \A id \in TaskIds : Cardinality(Started(id)) <= 1

\* C32: a StartTask call that returned an error registered nothing and left
\* neither a launcher nor an executor plugin of its own running.
C32_FailedStartLeavesNothing ==
  \A c \in Starters :
    (scRet[c].returned /\ scRet[c].err # "none") =>
      /\ \A id \in DOMAIN store : store[id] # c
      /\ scPs[c] # "running"
      /\ scPlugin[c] # "running"

\* C33: run publishes before it signals: in every state where doneCh is
\* closed the handle is no longer Running, its completion timestamp is set
\* and the log-stream cancellation has been fired; the channel is closed by
\* one step only, from open to closed, and stays closed.
C33_PublishBeforeDone ==
  /\ [](\A h \in Handles :
          doneCh[h] => /\ state[h] \in {TaskStateExited, TaskStateUnknown}
                       /\ completedAt[h] # ZeroTime
                       /\ slCtxDone)
  /\ [][\A h \in Handles :
          /\ doneCh[h] => doneCh'[h] /\ (runPc'[h] = runPc[h])
          /\ (doneCh'[h] /\ ~doneCh[h]) => runPc'[h] = "done"]_vars

\* a StopTask call has received from doneCh and returned
C33_Witness ==
  /\ last.op = "StopTask" /\ last.err = ErrNil /\ last.h # NilHandle
  /\ doneCh[last.h]
  /\ slCtxDone

\* C34: a published exit result is final: once a waiter has received the
\* exit result of a handle in state Exited, the exit code, signal and error
\* cause of that result and the completion timestamp of the handle are not
\* written again by any monitor, StopTask call or the watcher.
C34_PublishedResultFinal ==
  [][\A w \in Waiters :
       (wDelivered[w] # NilResult /\ state[wHandle[w]] = TaskStateExited) =>
         /\ exitResult'[wHandle[w]] = exitResult[wHandle[w]]
         /\ results'[wDelivered[w]] = results[wDelivered[w]]
         /\ completedAt'[wHandle[w]] = completedAt[wHandle[w]]]_vars

\* C35: after its call-scoped context or the driver context is cancelled,
\* the wait monitor and the fingerprint emitter eventually return and close
\* their channel, also when the receiver has stopped receiving: neither
\* stays blocked in a channel send for ever.
C35_NoSendBlockedForever ==
  /\ \A w \in Waiters :
       ((wCtxDone[w] \/ dCtxDone) /\ wPc[w] = "send") ~> (wPc[w] = "done")
  /\ ((fpCtxDone \/ dCtxDone) /\ fpPc = "send") ~> (fpPc = "done" /\ fpCloses = 1)

\* C36: the exit result the poll monitor builds has exit code 0 exactly when
\* the confirmation read succeeded with status Stopped; a confirmed Paused,
\* a failed confirmation read and a failed first read give a non-zero code.
C36_ExitCodeZeroIffStopped ==
  [][\A w \in Waiters :
       (wPc[w] = "mark" /\ wPc'[w] = "send") =>
         LET built == results'[exitResult'[wHandle[w]]] IN
           /\ built.ExitCode = 0 <=>
                (wCause[w] = "confirmed" /\ wStatus[w] = VMStateStopped)
           /\ (wCause[w] = "poll_err" \/ wStatus[w] # VMStateStopped) =>
                built.ExitCode = 1]_vars

\* a monitor has published a zero exit code after a confirmed Stopped, and
\* the handle is Exited
C36_Witness ==
  \E w \in Waiters :
    /\ wPc[w] = "send" /\ wCause[w] = "confirmed"
    /\ exitResult[wHandle[w]] = MonObj(w)
    /\ results[MonObj(w)].ExitCode = 0
    /\ state[wHandle[w]] = TaskStateExited

\* the positions of the last collection whose process was sampled with
\* success, and the keys they get in the per-PID map
SampledOk == {i \in 1 .. Len(tsPids) : tsSamples[i].fails = "none"}
SampledKeys == {Itoa(tsPids[i]) : i \in SampledOk}

RECURSIVE SumOver(_, _)
SumOver(keys, field) ==
  IF keys = {} THEN 0
  ELSE LET k == CHOOSE x \in keys : TRUE
       IN  field[k] + SumOver(keys \ {k}, field)

\* C37: in every stats sample the per-PID map holds exactly the attributed
\* processes whose memory, CPU-time and CPU-percent reads all succeeded, with
\* the values read, and each aggregate (RSS, swap, system and user CPU time,
\* CPU percent) is the sum of that field over the map, zero for an empty map;
\* a process whose sampling fails does not fail the sample.
C37_AggregateIsSumOfSampled ==
  tsUsage.built =>
    LET m == tsUsage.Pids IN
      /\ DOMAIN m = SampledKeys
      /\ \A i \in SampledOk :
           /\ m[Itoa(tsPids[i])].RSS = tsSamples[i].RSS
           /\ m[Itoa(tsPids[i])].Swap = tsSamples[i].Swap
           /\ m[Itoa(tsPids[i])].Percent = tsSamples[i].Percent
           /\ m[Itoa(tsPids[i])].SystemMode = tsSamples[i].System * 1000000
           /\ m[Itoa(tsPids[i])].UserMode = tsSamples[i].User * 1000000
      /\ tsUsage.RSS = SumOver(DOMAIN m, [k \in DOMAIN m |-> m[k].RSS])
      /\ tsUsage.Swap = SumOver(DOMAIN m, [k \in DOMAIN m |-> m[k].Swap])
      /\ tsUsage.SystemMode = SumOver(DOMAIN m, [k \in DOMAIN m |-> m[k].SystemMode])
      /\ tsUsage.UserMode = SumOver(DOMAIN m, [k \in DOMAIN m |-> m[k].UserMode])
      /\ tsUsage.Percent = SumOver(DOMAIN m, [k \in DOMAIN m |-> m[k].Percent])

\* a sample over the launcher and a helper process of which one failed its
\* CPU-percent read and the other was sampled
C37_Witness ==
  /\ tsUsage.built /\ tsPc = "send"
  /\ Len(tsPids) = 2
  /\ \E i, j \in 1 .. 2 :
       /\ tsSamples[i].fails = "Percent" /\ tsSamples[j].fails = "none"
       /\ DOMAIN tsUsage.Pids = {Itoa(tsPids[j])}
       /\ tsUsage.RSS = tsSamples[j].RSS

\* the PIDs a list holds
PidsOf(pids) == {pids[i] : i \in 1 .. Len(pids)}

\* C38: after every collection the PIDs for which sampling state is kept
\* across samples (cached process objects, CPU trackers) are among the PIDs
\* discovered in that collection.
C38_StatePruned ==
  /\ tsPc = "send" => procCache \subseteq PidsOf(tsPids)
  /\ procTrackers \subseteq PidsOf(trPids)

\* the flags of a `tart set` command, in the order given, each with its value
FlagsFor(cpu, memoryMB, diskGB) ==
  (IF cpu >= 1 THEN <<"--cpu", Itoa(cpu)>> ELSE << >>)
    \o (IF memoryMB >= 1 THEN <<"--memory", Itoa(memoryMB)>> ELSE << >>)
    \o (IF diskGB >= 1 THEN <<"--disk-size", Itoa(diskGB)>> ELSE << >>)

\* C39: the resource step issues one `set <name>` command holding --cpu N,
\* --memory MB and --disk-size GB, each exactly when its value is positive
\* and in that order, and no command when none is; without declared compute
\* resources Setup uses 4 cores and 4096 MB, and a disk size of 0 adds no
\* --disk-size.
C39_SetCommand ==
  /\ bFn = "SetVMResources" =>
       IF bIn[1] < 1 /\ bIn[2] < 1 /\ bIn[3] < 1 THEN bOut = << >>
       ELSE bOut = << <<"set", "vmName">> \o FlagsFor(bIn[1], bIn[2], bIn[3]) >>
  /\ bFn = "SetupResources" =>
       /\ bIn.res.nil => bOut.used.cpu = 4 /\ bOut.used.memoryMB = 4096
       /\ bOut.used.diskGB = bIn.DiskSize
       /\ Len(bOut.ran) <= 1
       /\ bOut.ran = << <<"set", "vmName">>
                          \o FlagsFor(bOut.used.cpu, bOut.used.memoryMB, bIn.DiskSize) >>
       /\ bIn.DiskSize = 0 =>
            \A i \in 1 .. Len(bOut.ran[1]) : bOut.ran[1][i] # "--disk-size"

\* Setup without declared resources and without a disk size: one command
\* with the default cores and memory and no --disk-size
C39_Witness ==
  /\ bFn = "SetupResources" /\ bIn.res.nil /\ bIn.DiskSize = 0
  /\ bOut.ran = << <<"set", "vmName", "--cpu", "4", "--memory", "4096">> >>

\* SetVMResources with nothing positive runs no command
C39_WitnessNoCommand ==
  bFn = "SetVMResources" /\ bIn = <<0, 0, 0>> /\ bOut = << >>

\* C40: buildTartNetworkArgs drops no supplied option: a network block whose
\* bridged_interface names an interface gives either --net-bridged with that
\* interface or an error, also when the mode is the default or left out.
C40_BridgedInterfaceNotDropped ==
  (bFn = "buildTartNetworkArgs" /\ ~bIn.nil /\ bIn.BridgedInterface = "en0") =>
    \/ bOut.err # "none"
    \/ bOut.args = <<"--net-bridged", "en0">>
====
